---- MODULE Spec2Model ----
(***************************************************************************)
(* Model of the shotgunEvents daemon: the engine's polling loop            *)
(* (src/src/engine.py), the plugin collections                             *)
(* (src/src/pluginCollection.py), the per-plugin cursor and gap/backlog    *)
(* tracker (src/src/plugin.py) and the callbacks (src/src/callback.py).    *)
(*                                                                         *)
(* Time is counted in minutes.  The upstream event log, the plugin files   *)
(* on disk, the cursor file and the wall clock are the environment.        *)
(***************************************************************************)
EXTENDS Integers, Sequences, FiniteSets, TLC

\* ------------------------------------------------------------- bounds
\* Highest event id the upstream log may hold.
MaxEventId == 4
\* The wall clock stops advancing at this minute.
MaxTime == 6
\* Highest [daemon] max_event_batch_size the configuration may set.
MaxEventBatchSize == 2
\* Highest event id in a cursor map that is saved and loaded on its own.
MaxCursorId == 2
\* Highest modification time a plugin file may get.
MaxMtime == 1

\* ------------------------------------------------------------- constants
\* Minutes after which a pending event is considered never to happen.
BACKLOG_TIMEOUT == 5
\* Python's None, for an integer-valued attribute (_lastEventId, _mtime).
None == -1

EventIds == 1..MaxEventId

\* Minutes by which the wall clock may jump between two steps: a jump
\* takes the clock just past the backlog timeout.
TickSteps == {BACKLOG_TIMEOUT + 1}

\* ------------------------------------------------------------- deployment
\* [plugins] paths of the configuration, in configured order.
PluginPaths == <<"c1", "c2">>

\* Every basename a plugin directory may hold, in lexicographic order.
Basenames == <<"a.py", "b.py">>

\* A plugin is identified by its directory and basename.  The plugin files
\* of the deployment:
PluginKeys == {<<"c1", "a.py">>, <<"c2", "b.py">>}
\* and those of a deployment whose first directory holds two plugins.
MorePluginKeys == PluginKeys \cup {<<"c1", "b.py">>}

\* os.listdir of a plugin directory, given the plugin files there are.
ListDir(files, path) == {k[2] : k \in {j \in files : j[1] = path}}

\* matchEvents values.  A filter is a function from event types (or "*") to
\* an attribute specification; the empty function stands for None and {}.
NoAttrs == [isNone |-> TRUE, names |-> {}]
Attrs(S) == [isNone |-> FALSE, names |-> S]
NoFilter == [t \in {} |-> NoAttrs]

\* The callbacks that evaluating a plugin file registers, in registration
\* order: what registerCallbacks passes to Registrar.registerCallback.
Registered(p) ==
    IF p[2] = "a.py"
    THEN << [stopOnError |-> TRUE,  matchEvents |-> NoFilter],
            [stopOnError |-> FALSE, matchEvents |-> NoFilter] >>
    ELSE << [stopOnError |-> FALSE, matchEvents |-> NoFilter],
            [stopOnError |-> TRUE,
             matchEvents |-> [t \in {"Task_Change"} |-> Attrs({"status"})]] >>

CallbackIndexes == 1..2

\* The payload the upstream gives the event of each id.
PayloadOf(id) ==
    IF id % 2 = 1
    THEN [event_type |-> "Task_Change", attribute_name |-> "status"]
    ELSE [event_type |-> "Task_New", attribute_name |-> ""]

Event(id, t) == [id |-> id, created_at |-> t,
                 event_type |-> PayloadOf(id).event_type,
                 attribute_name |-> PayloadOf(id).attribute_name]

\* ------------------------------------------------------------- helpers
SetMin(S) == CHOOSE x \in S : \A y \in S : x <= y
SetMax(S) == CHOOSE x \in S : \A y \in S : x >= y

\* An engine that follows the cursor that is furthest ahead.
MaxOrNone(S) == IF S \ {None} = {} THEN None ELSE SetMax(S \ {None})

\* min over the values that are not None; None when there is none.
MinOrNone(S) == IF S \ {None} = {} THEN None ELSE SetMin(S \ {None})

RECURSIVE SortedSeq(_)
\* The elements of a finite set of integers in ascending order.
SortedSeq(S) == IF S = {} THEN <<>> ELSE <<SetMin(S)>> \o SortedSeq(S \ {SetMin(S)})

Range(f) == {f[x] : x \in DOMAIN f}

\* ------------------------------------------------------------- callback.py
\* A canProcess that looks up the event's own type before the wildcard.
canProcess_OwnTypeFirst(matchEvents, event) ==
    IF DOMAIN matchEvents = {}
    THEN TRUE
    ELSE LET eventType == IF event.event_type \in DOMAIN matchEvents
                          THEN event.event_type ELSE "*"
         IN  IF eventType \notin DOMAIN matchEvents
             THEN FALSE
             ELSE LET attributes == matchEvents[eventType]
                  IN  IF attributes.isNone \/ "*" \in attributes.names
                      THEN TRUE
                      ELSE event.attribute_name # ""
                           /\ event.attribute_name \in attributes.names

\* Callback.canProcess
canProcess(matchEvents, event) ==
    IF DOMAIN matchEvents = {}
    THEN TRUE
    ELSE LET eventType == IF "*" \in DOMAIN matchEvents THEN "*" ELSE event.event_type
         IN  IF eventType \notin DOMAIN matchEvents
             THEN FALSE
             ELSE LET attributes == matchEvents[eventType]
                  IN  IF attributes.isNone \/ "*" \in attributes.names
                      THEN TRUE
                      ELSE event.attribute_name # ""
                           /\ event.attribute_name \in attributes.names

\* A callback that is deactivated by any raise.
Callback_process_Strict(callback, raises) ==
    IF raises THEN [callback EXCEPT !.active = FALSE] ELSE callback

\* Callback.process: the user function runs and either returns or raises;
\* a raise deactivates the callback when stopOnError is set.  The result is
\* the callback after the call; its active flag is the return value.
Callback_process(callback, raises) ==
    IF raises /\ callback.stopOnError
    THEN [callback EXCEPT !.active = FALSE]
    ELSE callback

\* Callback.__init__
NewCallback(reg) == [stopOnError |-> reg.stopOnError,
                     matchEvents |-> reg.matchEvents,
                     active |-> TRUE]

\* ------------------------------------------------------------- plugin.py
\* Plugin.__init__
NewPlugin == [active |-> TRUE, callbacks |-> <<>>, mtime |-> None,
              lastEventId |-> None, backlog |-> [k \in {} |-> 0]]

\* A loop over the callbacks that goes on after a failed callback.
StopAfter_Never(callback) == FALSE

\* What the loop over the callbacks does after callback i was invoked and
\* returned its active flag: stop at a failed callback.
StopAfter(callback) == ~callback.active

RECURSIVE Plugin__processFrom(_, _, _, _, _)
\* Plugin._process from callback i on.  r holds the plugin so far and the
\* invocations made so far, in order.
Plugin__processFrom(name, r, event, raising, i) ==
    IF i > Len(r.plugin.callbacks)
    THEN r
    ELSE LET callback == r.plugin.callbacks[i]
         IN  IF callback.active /\ canProcess(callback.matchEvents, event)
             THEN LET after == Callback_process(callback, i \in raising)
                      call == [plugin |-> name, callback |-> i, id |-> event.id,
                               raised |-> i \in raising]
                      r2 == [plugin |-> [r.plugin EXCEPT !.callbacks[i] = after],
                             calls |-> Append(r.calls, call)]
                  IN  IF StopAfter(after)
                      THEN [r2 EXCEPT !.plugin.active = FALSE]
                      ELSE Plugin__processFrom(name, r2, event, raising, i + 1)
             ELSE Plugin__processFrom(name, r, event, raising, i + 1)

\* Plugin._process: the plugin after the dispatch and the invocations made.
Plugin__process(name, plugin, event, raising) ==
    Plugin__processFrom(name, [plugin |-> plugin, calls |-> <<>>], event, raising, 1)

\* The cursor value _updateLastEventId commits for an event.
CommittedId(lastEventId, id) == id

\* A _updateLastEventId that takes a plugin without cursor to be at id 0.
updateLastEventId_FromZero(plugin, event, t) ==
    LET last == IF plugin.lastEventId = None THEN 0 ELSE plugin.lastEventId
        skipped == (last + 1)..(event.id - 1)
    IN  [plugin EXCEPT !.backlog =
                          IF event.id > last + 1 /\ ~(t > event.created_at + BACKLOG_TIMEOUT)
                          THEN [k \in DOMAIN plugin.backlog \cup skipped |->
                                   IF k \in skipped THEN t + BACKLOG_TIMEOUT
                                   ELSE plugin.backlog[k]]
                          ELSE plugin.backlog,
                       !.lastEventId = event.id]

\* Plugin._updateLastEventId at wall-clock time t.
updateLastEventId(plugin, event, t) ==
    LET last == plugin.lastEventId
        skipped == (last + 1)..(event.id - 1)
        gap == last # None /\ event.id > last + 1
        backlog2 ==
            IF gap /\ ~(t > event.created_at + BACKLOG_TIMEOUT)
            THEN [k \in DOMAIN plugin.backlog \cup skipped |->
                     IF k \in skipped THEN t + BACKLOG_TIMEOUT ELSE plugin.backlog[k]]
            ELSE plugin.backlog
    IN  [plugin EXCEPT !.backlog = backlog2,
                       !.lastEventId = CommittedId(last, event.id)]

\* A Plugin.process that leaves a processed id in the backlog.
DelBacklog_Kept(plugin, id) == plugin

\* del self._backlog[id]
DelBacklog(plugin, id) ==
    [plugin EXCEPT !.backlog = [k \in DOMAIN plugin.backlog \ {id} |-> plugin.backlog[k]]]

\* A Plugin.process that runs the advance step whatever _process returns.
Plugin_process_Advancing(name, plugin, event, raising, t) ==
    IF event.id \in DOMAIN plugin.backlog
    THEN LET r == Plugin__process(name, plugin, event, raising)
         IN  [r EXCEPT !.plugin = updateLastEventId(DelBacklog(r.plugin, event.id), event, t)]
    ELSE IF plugin.lastEventId # None /\ event.id <= plugin.lastEventId
    THEN [plugin |-> plugin, calls |-> <<>>]
    ELSE LET r == Plugin__process(name, plugin, event, raising)
         IN  [r EXCEPT !.plugin = updateLastEventId(r.plugin, event, t)]

\* A Plugin.process that does not drop the events at or below the cursor.
Plugin_process_Again(name, plugin, event, raising, t) ==
    LET r == Plugin__process(name, plugin, event, raising)
    IN  IF r.plugin.active
        THEN [r EXCEPT !.plugin =
                 updateLastEventId(IF event.id \in DOMAIN plugin.backlog
                                   THEN DelBacklog(r.plugin, event.id)
                                   ELSE r.plugin, event, t)]
        ELSE r

\* Plugin.process at wall-clock time t: the plugin afterwards and the
\* invocations made.
Plugin_process(name, plugin, event, raising, t) ==
    IF event.id \in DOMAIN plugin.backlog
    THEN LET r == Plugin__process(name, plugin, event, raising)
         IN  IF r.plugin.active
             THEN [r EXCEPT !.plugin = updateLastEventId(DelBacklog(r.plugin, event.id), event, t)]
             ELSE r
    ELSE IF plugin.lastEventId # None /\ event.id <= plugin.lastEventId
    THEN [plugin |-> plugin, calls |-> <<>>]
    ELSE LET r == Plugin__process(name, plugin, event, raising)
         IN  IF r.plugin.active
             THEN [r EXCEPT !.plugin = updateLastEventId(r.plugin, event, t)]
             ELSE r

RECURSIVE BatchPlugin__processFrom(_, _, _, _, _)
\* BatchPlugin._process from callback i on: every active callback is
\* passed, in one invocation, the events of the list it can process.  r
\* holds the plugin so far and, in order, one record for each event passed
\* to a callback.
BatchPlugin__processFrom(name, r, batch, raising, i) ==
    IF i > Len(r.plugin.callbacks)
    THEN r
    ELSE LET callback == r.plugin.callbacks[i]
             events_to_process ==
                 SelectSeq(batch, LAMBDA e : canProcess(callback.matchEvents, e))
         IN  IF callback.active /\ events_to_process # <<>>
             THEN LET after == Callback_process(callback, i \in raising)
                      passed == [n \in 1..Len(events_to_process) |->
                                    [plugin |-> name, callback |-> i,
                                     id |-> events_to_process[n].id,
                                     raised |-> i \in raising]]
                      r2 == [plugin |-> [r.plugin EXCEPT !.callbacks[i] = after],
                             calls |-> r.calls \o passed]
                  IN  IF StopAfter(after)
                      THEN [r2 EXCEPT !.plugin.active = FALSE]
                      ELSE BatchPlugin__processFrom(name, r2, batch, raising, i + 1)
             ELSE BatchPlugin__processFrom(name, r, batch, raising, i + 1)

\* BatchPlugin._process: the plugin after the dispatch of a list of events
\* and the events passed to the callbacks.
BatchPlugin__process(name, plugin, batch, raising) ==
    BatchPlugin__processFrom(name, [plugin |-> plugin, calls |-> <<>>], batch, raising, 1)

RECURSIVE UpdateEach(_, _, _, _)
\* The loops of BatchPlugin.process over the processed events:
\* _updateLastEventId of each in turn, after its removal from the backlog
\* when the events are the ones found in the backlog.
UpdateEach(plugin, processed, fromBacklog, t) ==
    IF processed = <<>>
    THEN plugin
    ELSE LET event == Head(processed)
         IN  UpdateEach(updateLastEventId(IF fromBacklog
                                          THEN DelBacklog(plugin, event.id)
                                          ELSE plugin, event, t),
                        Tail(processed), fromBacklog, t)

\* BatchPlugin.process of a list of events at wall-clock time t: the
\* plugin afterwards and the events passed to the callbacks.
BatchPlugin_process(name, plugin, batch, raising, t) ==
    LET events_in_backlog ==
            SelectSeq(batch, LAMBDA e : e.id \in DOMAIN plugin.backlog)
        old_events ==
            SelectSeq(batch, LAMBDA e : plugin.lastEventId # None
                                        /\ e.id <= plugin.lastEventId)
    IN  IF events_in_backlog # <<>>
        THEN LET r == BatchPlugin__process(name, plugin, batch, raising)
             IN  IF r.plugin.active
                 THEN [r EXCEPT !.plugin = UpdateEach(r.plugin, events_in_backlog, TRUE, t)]
                 ELSE r
        ELSE IF old_events # <<>>
        THEN [plugin |-> plugin, calls |-> <<>>]
        ELSE LET r == BatchPlugin__process(name, plugin, batch, raising)
             IN  IF r.plugin.active
                 THEN [r EXCEPT !.plugin = UpdateEach(r.plugin, batch, FALSE, t)]
                 ELSE r

\* The backlog keys whose expiration is in the past at time t.
ExpiredKeys(plugin, t) == {k \in DOMAIN plugin.backlog : plugin.backlog[k] < t}

\* Plugin.getNextUnprocessedEventId at time t: the plugin afterwards (its
\* expired backlog entries deleted) and the returned id.
Plugin_getNextUnprocessedEventId(plugin, t) ==
    LET live == DOMAIN plugin.backlog \ ExpiredKeys(plugin, t)
        first == IF plugin.lastEventId # None /\ plugin.lastEventId # 0
                 THEN plugin.lastEventId + 1 ELSE None
    IN  [plugin |-> [plugin EXCEPT !.backlog = [k \in live |-> plugin.backlog[k]]],
         nextId |-> MinOrNone({first} \cup live)]

\* A getState that reports the backlog of a plugin without its cursor.
Plugin_getState_NoCursor(plugin) == [lastEventId |-> None, backlog |-> plugin.backlog]

\* A setState that restores the cursor and forgets the backlog.
Plugin_setState_NoBacklog(plugin, state) ==
    [plugin EXCEPT !.lastEventId = state.lastEventId]

\* Plugin.setState with a tuple (lastEventId, backlog).
Plugin_setState(plugin, state) ==
    [plugin EXCEPT !.lastEventId = state.lastEventId, !.backlog = state.backlog]

\* Plugin.setState with a bare integer.
Plugin_setStateInt(plugin, id) == [plugin EXCEPT !.lastEventId = id]

\* Plugin.getState
Plugin_getState(plugin) == [lastEventId |-> plugin.lastEventId, backlog |-> plugin.backlog]

\* What evaluating a plugin file gives: a module that registers its
\* callbacks ("ok"), a failure before any callback is registered (the source
\* raises, or registerCallbacks is missing or not callable: "broken"), or a
\* registerCallbacks that raises after registering its first callback
\* ("registerRaises").
FileContents == {"ok", "broken", "registerRaises"}

\* Plugin.registerCallback for each registration of a sequence.
RegisterCallbacks(regs) == [n \in 1..Len(regs) |-> NewCallback(regs[n])]

\* The callbacks list after evaluating and registering a file's content.
LoadedCallbacks(name, content) ==
    IF content = "ok" THEN RegisterCallbacks(Registered(name))
    ELSE IF content = "registerRaises" THEN RegisterCallbacks(SubSeq(Registered(name), 1, 1))
    ELSE <<>>

\* A load() that evaluates the file every time.
NeedsLoad_Always(mtime, fileMtime) == TRUE

\* Whether load() goes on to evaluate the file: first load, or newer file.
NeedsLoad(mtime, fileMtime) == mtime = None \/ mtime < fileMtime

\* A load that starts from a new Plugin object.
Plugin_load_Anew(name, plugin, fileMtime, content) ==
    IF ~NeedsLoad(plugin.mtime, fileMtime)
    THEN plugin
    ELSE [NewPlugin EXCEPT !.mtime = fileMtime,
                           !.callbacks = LoadedCallbacks(name, content),
                           !.active = (content = "ok")]

\* A load that keeps the callback objects of the previous load.
Plugin_load_Carrying(name, plugin, fileMtime, content) ==
    IF ~NeedsLoad(plugin.mtime, fileMtime)
    THEN plugin
    ELSE [plugin EXCEPT !.mtime = fileMtime,
                        !.callbacks = IF plugin.callbacks = <<>>
                                      THEN LoadedCallbacks(name, content)
                                      ELSE plugin.callbacks,
                        !.active = (content = "ok")]

\* Plugin.load: fileMtime is os.path.getmtime of the plugin's file, content
\* what evaluating the file gives.
Plugin_load(name, plugin, fileMtime, content) ==
    IF ~NeedsLoad(plugin.mtime, fileMtime)
    THEN plugin
    ELSE [plugin EXCEPT !.mtime = fileMtime,
                        !.callbacks = LoadedCallbacks(name, content),
                        !.active = (content = "ok")]

\* ------------------------------------------------------------- pluginCollection.py
\* A collection that iterates over its plugins in reverse order of basename.
CollectionPlugins_Reversed(files, path) ==
    SelectSeq([n \in 1..Len(Basenames) |-> <<path, Basenames[Len(Basenames) + 1 - n]>>],
              LAMBDA k : k[2] \in ListDir(files, path))

\* PluginCollection.__iter__: the plugins of a directory, sorted by basename.
CollectionPlugins(files, path) ==
    SelectSeq([n \in 1..Len(Basenames) |-> <<path, Basenames[n]>>],
              LAMBDA k : k[2] \in ListDir(files, path))

RECURSIVE Flatten(_)
Flatten(seqs) == IF seqs = <<>> THEN <<>> ELSE Head(seqs) \o Flatten(Tail(seqs))

\* The order in which mainLoop offers an event to the plugins of the given
\* files: the collections in configured order, the plugins of each in
\* sorted order.
DispatchOrderOf(files) ==
    Flatten([c \in 1..Len(PluginPaths) |-> CollectionPlugins(files, PluginPaths[c])])

DispatchOrder == DispatchOrderOf(PluginKeys)

\* PluginCollection.load for every collection: plugins are created on first
\* sight and every plugin is (re)loaded.
Collections_load(plugins, mtimes, contents) ==
    [k \in DOMAIN mtimes |->
        Plugin_load(k, IF k \in DOMAIN plugins THEN plugins[k] ELSE NewPlugin,
                    mtimes[k], contents[k])]

\* The plugins whose files a load of the collections evaluates.
Reloading(plugins, mtimes) ==
    {k \in DOMAIN mtimes : k \in DOMAIN plugins => NeedsLoad(plugins[k].mtime, mtimes[k])}

\* A getNextUnprocessedEventId that asks inactive plugins too.
AsksPlugin_Any(plugin) == TRUE

\* Whether PluginCollection.getNextUnprocessedEventId asks a plugin.
AsksPlugin(plugin) == plugin.active

\* PluginCollection.getNextUnprocessedEventId for every collection at time
\* t: the plugins afterwards.
Collections_expire(plugins, t) ==
    [k \in DOMAIN plugins |->
        IF AsksPlugin(plugins[k])
        THEN Plugin_getNextUnprocessedEventId(plugins[k], t).plugin
        ELSE plugins[k]]

\* PluginCollection.getNextUnprocessedEventId of one collection at time t.
Collection_getNextUnprocessedEventId(plugins, path, t) ==
    MinOrNone({Plugin_getNextUnprocessedEventId(plugins[k], t).nextId :
                 k \in {j \in DOMAIN plugins : j[1] = path /\ AsksPlugin(plugins[j])}})

\* A PluginCollection.process that skips no plugin.
OffersTo_Any(plugin) == TRUE

\* Whether PluginCollection.process hands the event to a plugin.
OffersTo(plugin) == plugin.active

\* PluginCollection.process of every collection for one event at time t.
\* raising[k] is the set of callbacks of plugin k whose user function
\* raises when invoked with this event.
Collections_process(plugins, event, raising, t) ==
    [k \in DOMAIN plugins |->
        IF OffersTo(plugins[k])
        THEN Plugin_process(k, plugins[k], event, raising[k], t)
        ELSE [plugin |-> plugins[k], calls |-> <<>>]]

\* PluginCollection.process of every collection of BatchPlugin objects for
\* the fetched list of events at time t.  raising[k] is the set of
\* callbacks of plugin k whose user function raises when invoked.
BatchCollections_process(plugins, batch, raising, t) ==
    [k \in DOMAIN plugins |->
        IF OffersTo(plugins[k])
        THEN BatchPlugin_process(k, plugins[k], batch, raising[k], t)
        ELSE [plugin |-> plugins[k], calls |-> <<>>]]

\* PluginCollection.getState of every collection, merged into the engine's
\* _eventIdData: the entries of present plugins are refreshed, the others
\* are kept.
Collections_getState(plugins, data) ==
    [k \in DOMAIN data \cup DOMAIN plugins |->
        IF k \in DOMAIN plugins THEN Plugin_getState(plugins[k]) ELSE data[k]]

\* ------------------------------------------------------------- engine.py
\* The cursor file holds nothing (<<>>: no file) or one pickled map from
\* (collection path, plugin name) to (lastEventId, backlog).
NoFile == <<>>
EmptyData == [k \in {} |-> Plugin_getState(NewPlugin)]
FileData(eventIdFile) == IF eventIdFile = NoFile THEN EmptyData ELSE eventIdFile[1]

\* A query for the first event id of the database.
getFirstEventIdFromDatabase(events) == SetMin({e.id : e \in events})

\* Engine._getLastEventIdFromDatabase; it does not return while the
\* upstream has no event.
getLastEventIdFromDatabase(events) == SetMax({e.id : e \in events})

\* The state _loadEventIdData adopts for a plugin name that the map holds
\* under other paths: the one with the highest lastEventId.
MaxPluginState(data, name) ==
    LET named == {j \in DOMAIN data : j[2] = name}
        best == CHOOSE j \in named : \A i \in named : data[j].lastEventId >= data[i].lastEventId
    IN  data[best]

\* Engine._loadEventIdData when the cursor file exists and unpickles.
LoadFromData(plugins, data, events) ==
    [k \in DOMAIN plugins |->
        IF {j \in DOMAIN data : j[1] = k[1]} # {}
        THEN IF k \in DOMAIN data THEN Plugin_setState(plugins[k], data[k]) ELSE plugins[k]
        ELSE IF {j \in DOMAIN data : j[2] = k[2]} # {}
        THEN Plugin_setState(plugins[k], MaxPluginState(data, k[2]))
        ELSE Plugin_setStateInt(plugins[k], getLastEventIdFromDatabase(events))]

\* Whether _loadEventIdData has to ask the upstream for its last event id.
LoadAsksDatabase(eventIdFile) ==
    \/ eventIdFile = NoFile
    \/ \E path \in Range(PluginPaths) : {j \in DOMAIN FileData(eventIdFile) : j[1] = path} = {}

\* Whether the scan of _loadEventIdData for the highest state of each plugin
\* name raises: "pluginState[0] > maxPluginStates[pluginName][0]" compares
\* the lastEventId of two entries of one name, and an order comparison
\* with None raises TypeError.
CompareRaises(data) ==
    \E i \in DOMAIN data, j \in DOMAIN data :
       i # j /\ i[2] = j[2] /\ data[i].lastEventId = None

\* A _saveEventIdData that writes whatever the collections hold.
HasState_Always(data) == TRUE

\* Whether _saveEventIdData finds a collection state to write.
HasState(data) == DOMAIN data # {}

\* traceback.format_exc(err), as the handlers of engine.py call it: the
\* exception is taken for the limit argument, and comparing it with an
\* integer raises TypeError.
FormatExcRaises == TRUE

\* Engine._saveEventIdData: the cursor file afterwards, whether it was
\* written, and whether an exception leaves the method.  writeOk tells
\* whether open() of the file succeeds; when it does not, the file is as
\* it was, and the handler of the OSError raises in turn.
saveEventIdData(plugins, eventIdFile, writeOk) ==
    LET data == Collections_getState(plugins, FileData(eventIdFile))
    IN  IF HasState(data) /\ writeOk
        THEN [file |-> <<data>>, wrote |-> TRUE, raised |-> FALSE]
        ELSE [file |-> eventIdFile, wrote |-> FALSE,
              raised |-> HasState(data) /\ FormatExcRaises]

\* Engine._loadEventIdData: the plugins and the cursor file afterwards,
\* whether the file was written, and whether an exception leaves the
\* method.
loadEventIdData(plugins, eventIdFile, events, writeOk) ==
    IF eventIdFile # NoFile
    THEN IF LoadAsksDatabase(eventIdFile) /\ CompareRaises(eventIdFile[1])
         THEN [plugins |-> plugins, file |-> eventIdFile, wrote |-> FALSE, raised |-> TRUE]
         ELSE [plugins |-> LoadFromData(plugins, eventIdFile[1], events),
               file |-> eventIdFile, wrote |-> FALSE, raised |-> FALSE]
    ELSE LET lastEventId == getLastEventIdFromDatabase(events)
             seeded == [k \in DOMAIN plugins |-> Plugin_setStateInt(plugins[k], lastEventId)]
             saved == saveEventIdData(seeded, eventIdFile, writeOk)
         IN  [plugins |-> seeded, file |-> saved.file, wrote |-> saved.wrote,
              raised |-> saved.raised]

\* The id _getNewEvents asks the upstream from, at time t: the minimum over
\* the collections.
NextEventId(plugins, t) ==
    MinOrNone({Collection_getNextUnprocessedEventId(plugins, PluginPaths[c], t) :
                 c \in 1..Len(PluginPaths)})

\* An sg.find with filter id > nextEventId.
Find_After(events, nextEventId, limit) ==
    LET ids == SortedSeq({e.id : e \in {x \in events : x.id > nextEventId}})
        byId(i) == CHOOSE e \in events : e.id = i
    IN  [n \in 1..(IF Len(ids) < limit THEN Len(ids) ELSE limit) |-> byId(ids[n])]

\* sg.find with filter id > nextEventId - 1, ascending, limited.
Find(events, nextEventId, limit) ==
    LET ids == SortedSeq({e.id : e \in {x \in events : x.id > nextEventId - 1}})
        byId(i) == CHOOSE e \in events : e.id = i
    IN  [n \in 1..(IF Len(ids) < limit THEN Len(ids) ELSE limit) |-> byId(ids[n])]

\* A _getNewEvents that returns what the upstream holds whether or not a
\* connection attempt succeeded.
getNewEvents_Regardless(plugins, events, connected, limit, t) ==
    IF NextEventId(plugins, t) # None
    THEN Find(events, NextEventId(plugins, t), limit)
    ELSE <<>>

\* Engine._getNewEvents at time t: the batch it returns.  connected tells
\* whether one of the connection attempts succeeds.
getNewEvents(plugins, events, connected, limit, t) ==
    IF NextEventId(plugins, t) # None /\ connected
    THEN Find(events, NextEventId(plugins, t), limit)
    ELSE <<>>

\* A mainLoop that persists the cursor map in every iteration.
SavesAfter_Always(events) == TRUE

\* mainLoop: whether the cursor map is persisted after the dispatch.
SavesAfter(events) == events # <<>>

\* ------------------------------------------------------------- state
VARIABLES
    now,          \* the wall clock, in minutes
    upstream,     \* the events the upstream log holds
    disk,         \* the modification time of each plugin file
    eventIdFile,  \* the cursor file
    maxEventBatchSize, \* the configuration's max_event_batch_size
    pc,           \* where the daemon is: "down", "fetch", "dispatch", "save"
    events,       \* mainLoop: the batch _getNewEvents returned
    index,        \* mainLoop: position in the batch of the next event
    plugins,      \* the Plugin objects of all collections
    calls,        \* the callback invocations of the last step, in order
    wrote,        \* whether the last step wrote the cursor file
    delivered,    \* per plugin, the (callback, event id) pairs invoked since
                  \* the plugin's callbacks were created
    expired,      \* per plugin, the ids dropped from the backlog by timeout
                  \* in this run while their event was not visible upstream
    lostWork,     \* whether the last kill came after events of a batch were
                  \* dispatched and before the cursor file was written, and
                  \* the daemon has not fetched since
    neverHappened, \* per plugin, the ids that _updateLastEventId logged in
                  \* this run as "never happened" instead of adding them to
                  \* the backlog
    lastFetch,    \* _getNewEvents: the nextEventId of the last call in this
                  \* run and whether all its connection attempts failed
    seededId,     \* _loadEventIdData: the last event id of the database that
                  \* the plugins were last seeded with for want of a cursor
                  \* file
    probe,        \* the arguments and the result of the last call of one
                  \* method on objects made for the call
    killer        \* GracefulKiller: kill_now, the engine's start_engine, and
                  \* the test the process is to make next when pc = "fetch"

vars == <<now, upstream, disk, eventIdFile, maxEventBatchSize, pc, events, index,
          plugins, calls, wrote, delivered, expired, lostWork, neverHappened, lastFetch,
          seededId, probe, killer>>

env == <<now, upstream, disk, maxEventBatchSize>>

\* The plugins of a process that has loaded none of the files yet.
NewPlugins(files) == [k \in files |-> NewPlugin]
NoneDelivered == [k \in PluginKeys |-> {}]
NoFetch == [nextEventId |-> None, failed |-> FALSE]
NoProbe == [method |-> "none"]
\* GracefulKiller.__init__ and Engine.__init__: neither flag is set and
\* start is to test "while not self.kill_now".
NewKiller == [kill_now |-> FALSE, start_engine |-> FALSE, at |-> "while"]
\* Engine.start has set start_engine and calls mainLoop, which is to test
\* "if self.start_engine".
Entering == [kill_now |-> FALSE, start_engine |-> TRUE, at |-> "enter"]
\* The last load of the collections: what evaluating each file gave.
Loaded(contents) == [method |-> "load", contents |-> contents]
\* The last step ended with an exception out of _saveEventIdData.
SaveRaised == [method |-> "_saveEventIdData", raised |-> TRUE]

\* The state before the daemon is first started, with the given plugin
\* files on disk.
InitWith(files) ==
    /\ now = 0
    /\ upstream = {Event(1, 0)}
    /\ disk = [k \in files |-> 0]
    /\ eventIdFile = NoFile
    /\ maxEventBatchSize \in 1..MaxEventBatchSize
    /\ pc = "down"
    /\ events = <<>>
    /\ index = 0
    /\ plugins = NewPlugins(files)
    /\ calls = <<>>
    /\ wrote = FALSE
    /\ delivered = NoneDelivered
    /\ expired = NoneDelivered
    /\ lostWork = FALSE
    /\ neverHappened = NoneDelivered
    /\ lastFetch = NoFetch
    /\ seededId = None
    /\ probe = NoProbe
    /\ killer = NewKiller

Init == InitWith(PluginKeys)

\* What the environment may do to the daemon: what evaluating a plugin file
\* may give, whether writing the cursor file may fail, whether all
\* connection attempts of a fetch may fail, whether a user function may
\* raise; whether the history variables delivered and expired are kept, and
\* which of lastFetch ("fetch") and seededId ("seed") are.
Reliable == [contents |-> {"ok"}, writeOk |-> {TRUE}, connected |-> {TRUE, FALSE},
             raises |-> TRUE, history |-> FALSE, trace |-> {}]
Recorded == [Reliable EXCEPT !.history = TRUE]
\* A run in which no user function raises.
NoFailure == [Recorded EXCEPT !.raises = FALSE]

\* What the evaluated files may give: one outcome for each file evaluated.
LoadOutcomes(E, ps, mtimes) ==
    {[k \in DOMAIN ps |-> IF k \in Reloading(ps, mtimes) THEN f[k] ELSE "ok"] :
        f \in [DOMAIN ps -> E.contents]}

\* The callbacks of each offered plugin that can be invoked for an event,
\* and so the ones whose user function may raise on it.
MayRaise(E, ps, event) ==
    [k \in DOMAIN ps |->
        IF E.raises /\ OffersTo(ps[k])
        THEN {i \in 1..Len(ps[k].callbacks) :
                ps[k].callbacks[i].active /\ canProcess(ps[k].callbacks[i].matchEvents, event)}
        ELSE {}]

RaisingChoices(E, ps, event) ==
    {f \in [DOMAIN ps -> SUBSET CallbackIndexes] :
        \A k \in DOMAIN ps : f[k] \subseteq MayRaise(E, ps, event)[k]}

\* ------------------------------------------------------------- environment
\* The wall clock advances.
Tick ==
    /\ \E d \in TickSteps : now + d <= MaxTime /\ now' = now + d
    /\ calls' = <<>> /\ wrote' = FALSE
    /\ UNCHANGED <<upstream, disk, eventIdFile, maxEventBatchSize, pc, events, index,
                   plugins, delivered, expired, lostWork, neverHappened, lastFetch, seededId, probe,
                   killer>>

\* The creation times an event of this id may carry when it becomes
\* visible: ids are allocated in creation order, so the time lies between
\* those of the visible events of lower and of higher id, and not in the
\* future.
CreationTimes(id) ==
    {t \in {0} \cup {e.created_at : e \in upstream} \cup {now} :
        /\ \A e \in upstream : e.id < id => e.created_at <= t
        /\ \A e \in upstream : e.id > id => t <= e.created_at}

\* An event becomes visible in the upstream log; ids may become visible out
\* of order.
AddEvent ==
    /\ \E id \in EventIds :
          /\ \A e \in upstream : e.id # id
          /\ \E t \in CreationTimes(id) : upstream' = upstream \cup {Event(id, t)}
    /\ calls' = <<>> /\ wrote' = FALSE
    /\ UNCHANGED <<now, disk, eventIdFile, maxEventBatchSize, pc, events, index,
                   plugins, delivered, expired, lostWork, neverHappened, lastFetch, seededId, probe,
                   killer>>

\* The process dies; everything in memory is lost.
Crash ==
    /\ pc # "down"
    /\ pc' = "down"
    /\ events' = <<>> /\ index' = 0
    /\ plugins' = NewPlugins(DOMAIN disk)
    /\ calls' = <<>> /\ wrote' = FALSE
    /\ delivered' = NoneDelivered /\ expired' = NoneDelivered
    /\ lostWork' = (pc \in {"dispatch", "save"} /\ index > 1)
    /\ neverHappened' = NoneDelivered
    /\ lastFetch' = NoFetch
    /\ UNCHANGED <<env, eventIdFile, seededId, probe, killer>>

\* ------------------------------------------------------------- the daemon
\* What a profile keeps in probe of a step that loads the collections and
\* writes the cursor file.
Observed(E, contents, raised) ==
    IF "load" \in E.trace THEN Loaded(contents)
    ELSE IF "save" \in E.trace THEN (IF raised THEN SaveRaised ELSE NoProbe)
    ELSE probe

\* Engine.start up to the first mainLoop: load the collections, then
\* _loadEventIdData.  An exception that leaves _loadEventIdData reaches the
\* handler of start, which raises in turn: the process ends.
StartIn(E) ==
    /\ pc = "down"
    /\ LoadAsksDatabase(eventIdFile) => upstream # {}
    /\ \E writeOk \in E.writeOk, contents \in LoadOutcomes(E, NewPlugins(DOMAIN disk), disk) :
          LET loaded == Collections_load(NewPlugins(DOMAIN disk), disk, contents)
              r == loadEventIdData(loaded, eventIdFile, upstream, writeOk)
          IN  /\ plugins' = IF r.raised THEN NewPlugins(DOMAIN disk) ELSE r.plugins
              /\ eventIdFile' = r.file
              /\ wrote' = r.wrote
              /\ probe' = Observed(E, contents, r.raised)
              /\ pc' = IF r.raised THEN "down" ELSE "fetch"
    /\ killer' = IF "stop" \in E.trace THEN Entering ELSE killer
    /\ seededId' = IF "seed" \in E.trace /\ eventIdFile = NoFile
                   THEN getLastEventIdFromDatabase(upstream)
                   ELSE seededId
    /\ events' = <<>> /\ index' = 0
    /\ calls' = <<>>
    /\ delivered' = NoneDelivered /\ expired' = NoneDelivered
    /\ neverHappened' = NoneDelivered
    /\ UNCHANGED <<env, lostWork, lastFetch>>

\* mainLoop: events = self._getNewEvents()
GetNewEventsIn(E) ==
    /\ pc = "fetch"
    /\ "stop" \in E.trace => killer.at = "enter" /\ killer.start_engine
    /\ \E connected \in E.connected :
          /\ events' = getNewEvents(plugins, upstream, connected, maxEventBatchSize, now)
          /\ lastFetch' = IF "fetch" \in E.trace
                          THEN [nextEventId |-> NextEventId(plugins, now),
                                failed |-> NextEventId(plugins, now) # None /\ ~connected]
                          ELSE lastFetch
    /\ plugins' = Collections_expire(plugins, now)
    /\ expired' = IF E.history
                  THEN [k \in PluginKeys |->
                          expired[k] \cup {g \in DOMAIN plugins[k].backlog \ DOMAIN plugins'[k].backlog :
                                              \A e \in upstream : e.id # g}]
                  ELSE expired
    /\ index' = 1
    /\ pc' = IF events' = <<>> THEN "save" ELSE "dispatch"
    /\ calls' = <<>> /\ wrote' = FALSE
    /\ lostWork' = FALSE
    /\ UNCHANGED neverHappened
    /\ UNCHANGED <<env, eventIdFile, delivered, seededId, probe, killer>>

\* Plugin.process of the event at time t, which took the plugin from
\* before to after, ran _updateLastEventId (the event was not dropped as
\* too old and _process left the plugin active), and there the event was
\* beyond the next id and older than BACKLOG_TIMEOUT: the skipped ids are
\* logged as "never happened".
Discards(before, after, event, t) ==
    /\ OffersTo(before) /\ after.active
    /\ ~(event.id \notin DOMAIN before.backlog
          /\ before.lastEventId # None /\ event.id <= before.lastEventId)
    /\ before.lastEventId # None /\ event.id > before.lastEventId + 1
    /\ t > event.created_at + BACKLOG_TIMEOUT

\* mainLoop: one turn of "for event in events", collection.process(event)
\* for every collection.
ProcessEventIn(E) ==
    /\ pc = "dispatch"
    /\ \E raising \in RaisingChoices(E, plugins, events[index]) :
          LET r == Collections_process(plugins, events[index], raising, now)
              order == DispatchOrderOf(DOMAIN plugins)
          IN  /\ plugins' = [k \in DOMAIN plugins |-> r[k].plugin]
              /\ calls' = Flatten([n \in 1..Len(order) |-> r[order[n]].calls])
    /\ delivered' = IF E.history
                    THEN [k \in PluginKeys |->
                            delivered[k] \cup {<<calls'[n].callback, calls'[n].id>> :
                                                 n \in {m \in 1..Len(calls') : calls'[m].plugin = k}}]
                    ELSE delivered
    /\ neverHappened' =
          IF "skip" \in E.trace
          THEN [k \in PluginKeys |->
                  IF k \in DOMAIN plugins /\ Discards(plugins[k], plugins'[k], events[index], now)
                  THEN neverHappened[k] \cup
                          (plugins[k].lastEventId + 1)..(events[index].id - 1)
                  ELSE neverHappened[k]]
          ELSE neverHappened
    /\ index' = index + 1
    /\ pc' = IF index = Len(events) THEN "save" ELSE "dispatch"
    /\ wrote' = FALSE
    /\ UNCHANGED <<env, eventIdFile, events, expired, lostWork, lastFetch, seededId,
                   probe, killer>>

\* mainLoop in batch mode: collection.process(events) for every
\* collection, the whole fetched list at once.
ProcessEventsIn(E) ==
    /\ pc = "dispatch"
    /\ \E raising \in [DOMAIN plugins ->
                          IF E.raises THEN SUBSET CallbackIndexes ELSE {{}}] :
          LET r == BatchCollections_process(plugins, events, raising, now)
              order == DispatchOrderOf(DOMAIN plugins)
          IN  /\ plugins' = [k \in DOMAIN plugins |-> r[k].plugin]
              /\ calls' = Flatten([n \in 1..Len(order) |-> r[order[n]].calls])
    /\ delivered' = IF E.history
                    THEN [k \in PluginKeys |->
                            delivered[k] \cup {<<calls'[n].callback, calls'[n].id>> :
                                                 n \in {m \in 1..Len(calls') : calls'[m].plugin = k}}]
                    ELSE delivered
    /\ index' = Len(events) + 1
    /\ pc' = "save"
    /\ wrote' = FALSE
    /\ UNCHANGED <<env, eventIdFile, events, expired, lostWork, neverHappened,
                   lastFetch, seededId, probe, killer>>

\* mainLoop after the dispatch: persist the cursor map if there were
\* events, sleep, reload the collections, and re-resolve the cursors from
\* the cursor file if there were events.  An exception that leaves
\* _saveEventIdData or _loadEventIdData leaves mainLoop, and either leaves
\* GracefulKiller.start, which has no handler, or reaches the handler of
\* Engine.start, which raises in turn: the process ends.
FinishLoopIn(E) ==
    /\ pc = "save"
    /\ \E writeOk \in E.writeOk, rewriteOk \in E.writeOk,
          contents \in LoadOutcomes(E, plugins, disk) :
          LET saved == IF SavesAfter(events)
                       THEN saveEventIdData(plugins, eventIdFile, writeOk)
                       ELSE [file |-> eventIdFile, wrote |-> FALSE, raised |-> FALSE]
              loaded == Collections_load(plugins, disk, contents)
              r == IF saved.raised
                   THEN [plugins |-> plugins, file |-> saved.file, wrote |-> FALSE,
                         raised |-> TRUE]
                   ELSE IF events # <<>>
                   THEN loadEventIdData(loaded, saved.file, upstream, rewriteOk)
                   ELSE [plugins |-> loaded, file |-> saved.file, wrote |-> FALSE,
                         raised |-> FALSE]
          IN  /\ events # <<>> /\ LoadAsksDatabase(saved.file) => upstream # {}
              /\ plugins' = IF r.raised THEN NewPlugins(DOMAIN disk) ELSE r.plugins
              /\ eventIdFile' = r.file
              /\ wrote' = (saved.wrote \/ r.wrote)
              /\ probe' = Observed(E, contents, r.raised)
              /\ seededId' = IF "seed" \in E.trace /\ events # <<>> /\ saved.file = NoFile
                             THEN getLastEventIdFromDatabase(upstream)
                             ELSE seededId
              /\ pc' = IF r.raised THEN "down" ELSE "fetch"
              /\ delivered' = IF r.raised THEN NoneDelivered
                               ELSE [k \in PluginKeys |->
                                       IF k \in Reloading(plugins, disk) THEN {}
                                       ELSE delivered[k]]
              /\ expired' = IF r.raised THEN NoneDelivered ELSE expired
              /\ lostWork' = IF r.raised THEN index > 1 ELSE lostWork
              /\ neverHappened' = IF r.raised THEN NoneDelivered ELSE neverHappened
              /\ lastFetch' = IF r.raised THEN NoFetch ELSE lastFetch
    /\ killer' = IF "stop" \in E.trace THEN [killer EXCEPT !.at = "while"] ELSE killer
    /\ events' = <<>> /\ index' = 0
    /\ calls' = <<>>
    /\ UNCHANGED env

Start == StartIn(Reliable)
GetNewEvents == GetNewEventsIn(Reliable)
ProcessEvent == ProcessEventIn(Reliable)
FinishLoop == FinishLoopIn(Reliable)

Next ==
    \/ Tick
    \/ AddEvent
    \/ Crash
    \/ Start
    \/ GetNewEvents
    \/ ProcessEvent
    \/ FinishLoop

Spec == Init /\ [][Next]_vars

\* The same daemon with the history variables kept.
NextRecorded ==
    \/ Tick
    \/ AddEvent
    \/ Crash
    \/ StartIn(Recorded)
    \/ GetNewEventsIn(Recorded)
    \/ ProcessEventIn(Recorded)
    \/ FinishLoopIn(Recorded)

SpecRecorded == Init /\ [][NextRecorded]_vars

\* The same daemon, history kept, when no user function ever raises.
NextNoFailure ==
    \/ Tick
    \/ AddEvent
    \/ Crash
    \/ StartIn(NoFailure)
    \/ GetNewEventsIn(NoFailure)
    \/ ProcessEventIn(NoFailure)
    \/ FinishLoopIn(NoFailure)

SpecNoFailure == Init /\ [][NextNoFailure]_vars

\* The daemon when every fetch succeeds.
Connected == [Reliable EXCEPT !.connected = {TRUE}]

NextRun ==
    \/ Tick
    \/ AddEvent
    \/ Crash
    \/ StartIn(Connected)
    \/ GetNewEventsIn(Connected)
    \/ ProcessEventIn(Connected)
    \/ FinishLoopIn(Connected)

\* A step of the daemon: each one moves pc or index, and no step of the
\* environment does, but for the kill, which takes pc to "down".
DaemonStep ==
    /\ pc' \in {"fetch", "dispatch", "save"}
    /\ index' \in 0..(MaxEventBatchSize + 1)
    /\ <<pc, index>>' # <<pc, index>>

\* GracefulKiller.start's "while not self.kill_now" keeps taking the steps
\* of the loop, none of which blocks for ever; the wall clock keeps
\* advancing.
Fairness ==
    /\ WF_<<pc, index>>(DaemonStep)
    /\ WF_vars(Tick)

SpecRun == Init /\ [][NextRun]_vars /\ Fairness

\* The same daemon with lastFetch kept.
Traced == [Reliable EXCEPT !.trace = {"fetch"}]

NextTraced ==
    \/ Tick
    \/ AddEvent
    \/ Crash
    \/ StartIn(Traced)
    \/ GetNewEventsIn(Traced)
    \/ ProcessEventIn(Traced)
    \/ FinishLoopIn(Traced)

SpecTraced == Init /\ [][NextTraced]_vars

\* The same daemon with seededId kept.
Seeded == [Reliable EXCEPT !.trace = {"seed"}]

NextSeeded ==
    \/ Tick
    \/ AddEvent
    \/ Crash
    \/ StartIn(Seeded)
    \/ GetNewEventsIn(Seeded)
    \/ ProcessEventIn(Seeded)
    \/ FinishLoopIn(Seeded)

SpecSeeded == Init /\ [][NextSeeded]_vars

\* The daemon, every fetch succeeding, on the deployment whose first
\* directory holds two plugins, within a span of time too short for a
\* backlog entry to expire.
InitMore == InitWith(MorePluginKeys)

NextMore ==
    \/ AddEvent
    \/ StartIn(Connected)
    \/ GetNewEventsIn(Connected)
    \/ ProcessEventIn(Connected)
    \/ FinishLoopIn(Connected)

SpecMore == InitMore /\ [][NextMore]_vars

\* A plugin file is modified on disk.
Touch ==
    /\ \E k \in DOMAIN disk : disk[k] < MaxMtime /\ disk' = [disk EXCEPT ![k] = @ + 1]
    /\ calls' = <<>> /\ wrote' = FALSE
    /\ UNCHANGED <<now, upstream, eventIdFile, maxEventBatchSize, pc, events, index,
                   plugins, delivered, expired, lostWork, neverHappened, lastFetch, seededId, probe,
                   killer>>

\* The daemon when plugin files may fail to load and may be modified, no
\* callback raises and every fetch succeeds; the outcome of the last load
\* is kept.
Faulty == [Connected EXCEPT !.contents = FileContents, !.raises = FALSE,
                            !.trace = {"load"}]

NextFaulty ==
    \/ AddEvent
    \/ Touch
    \/ StartIn(Faulty)
    \/ GetNewEventsIn(Faulty)
    \/ ProcessEventIn(Faulty)
    \/ FinishLoopIn(Faulty)

\* A deployment with two plugins in the first directory and none in the
\* second, configured with the highest batch size.
InitFaulty ==
    /\ InitWith({<<"c1", "a.py">>, <<"c1", "b.py">>})
    /\ maxEventBatchSize = MaxEventBatchSize

SpecFaulty == InitFaulty /\ [][NextFaulty]_vars

\* The daemon on a deployment without plugin files or with one, every
\* fetch succeeding, within a span of time too short for a backlog entry
\* to expire.
InitFew == \E files \in {{}, {<<"c1", "a.py">>}} : InitWith(files)

SpecFew == InitFew /\ [][NextMore]_vars

\* The daemon when user functions may raise and plugin files may be
\* modified, every fetch succeeding, within a span of time too short for a
\* backlog entry to expire; the loop keeps taking its steps.
Recovering == [Connected EXCEPT !.history = TRUE]

NextRecovering ==
    \/ AddEvent
    \/ Touch
    \/ StartIn(Recovering)
    \/ GetNewEventsIn(Recovering)
    \/ ProcessEventIn(Recovering)
    \/ FinishLoopIn(Recovering)

SpecRecovering == Init /\ [][NextRecovering]_vars /\ WF_<<pc, index>>(DaemonStep)

\* The daemon in batch mode (batch_plugin = on), its collections holding
\* BatchPlugin objects.
NextBatch ==
    \/ Tick
    \/ AddEvent
    \/ StartIn(Recorded)
    \/ GetNewEventsIn(Recorded)
    \/ ProcessEventsIn(Recorded)
    \/ FinishLoopIn(Recorded)

SpecBatch == Init /\ [][NextBatch]_vars

\* The daemon with one plugin when plugin files load and may be modified,
\* callbacks may raise and every fetch succeeds; the outcome of the last
\* load is kept.
Modified == [Connected EXCEPT !.trace = {"load"}]

NextModified ==
    \/ AddEvent
    \/ Touch
    \/ StartIn(Modified)
    \/ GetNewEventsIn(Modified)
    \/ ProcessEventIn(Modified)
    \/ FinishLoopIn(Modified)

SpecModified == InitWith({<<"c1", "a.py">>}) /\ [][NextModified]_vars

\* The daemon when writing the cursor file may fail, no callback raises and
\* every fetch succeeds; whether the last step ended with an exception out
\* of _saveEventIdData is kept.
Unwritable == [Connected EXCEPT !.writeOk = {TRUE, FALSE}, !.raises = FALSE,
                                !.trace = {"save"}]

NextUnwritable ==
    \/ AddEvent
    \/ StartIn(Unwritable)
    \/ GetNewEventsIn(Unwritable)
    \/ ProcessEventIn(Unwritable)
    \/ FinishLoopIn(Unwritable)

SpecUnwritable == Init /\ [][NextUnwritable]_vars

\* The daemon when signals are handled, no callback raises and every fetch
\* succeeds.
Stoppable == [Connected EXCEPT !.raises = FALSE, !.trace = {"stop"}]

\* GracefulKiller.exit_gracefully, called by the interpreter for SIGINT or
\* SIGTERM between two instructions of the running process.
Signal ==
    /\ pc # "down" /\ ~killer.kill_now
    /\ killer' = [killer EXCEPT !.kill_now = TRUE, !.start_engine = FALSE]
    /\ calls' = <<>> /\ wrote' = FALSE
    /\ UNCHANGED <<env, eventIdFile, pc, events, index, plugins, delivered, expired,
                   lostWork, neverHappened, lastFetch, seededId, probe>>

\* mainLoop called while start_engine is not set: it returns at once, and
\* GracefulKiller.start sleeps and is back at its loop test.
SkipMainLoop ==
    /\ pc = "fetch" /\ killer.at = "enter" /\ ~killer.start_engine
    /\ killer' = [killer EXCEPT !.at = "while"]
    /\ calls' = <<>> /\ wrote' = FALSE
    /\ UNCHANGED <<env, eventIdFile, pc, events, index, plugins, delivered, expired,
                   lostWork, neverHappened, lastFetch, seededId, probe>>

\* GracefulKiller.start: "while not self.kill_now".  When the loop ends,
\* main returns and the process exits.
WhileTest ==
    /\ pc = "fetch" /\ killer.at = "while"
    /\ IF killer.kill_now
       THEN /\ pc' = "down"
            /\ plugins' = NewPlugins(DOMAIN disk)
            /\ killer' = [killer EXCEPT !.at = "exited"]
       ELSE /\ killer' = [killer EXCEPT !.at = "if"]
            /\ UNCHANGED <<pc, plugins>>
    /\ calls' = <<>> /\ wrote' = FALSE
    /\ UNCHANGED <<env, eventIdFile, events, index, delivered, expired, lostWork, neverHappened,
                   lastFetch, seededId, probe>>

\* GracefulKiller.start: "if self._engine.start_engine", which calls
\* mainLoop, and else Engine.start, which sets start_engine, loads the
\* collections, calls _loadEventIdData and then mainLoop.
IfTestIn(E) ==
    /\ pc = "fetch" /\ killer.at = "if"
    /\ IF killer.start_engine
       THEN UNCHANGED <<plugins, eventIdFile>> /\ wrote' = FALSE
       ELSE /\ LoadAsksDatabase(eventIdFile) => upstream # {}
            /\ \E writeOk \in E.writeOk, contents \in LoadOutcomes(E, plugins, disk) :
                  LET loaded == Collections_load(plugins, disk, contents)
                      r == loadEventIdData(loaded, eventIdFile, upstream, writeOk)
                  IN  /\ plugins' = r.plugins
                      /\ eventIdFile' = r.file
                      /\ wrote' = r.wrote
    /\ killer' = [killer EXCEPT !.start_engine = TRUE, !.at = "enter"]
    /\ calls' = <<>>
    /\ UNCHANGED <<env, pc, events, index, delivered, expired, lostWork, neverHappened, lastFetch,
                   seededId, probe>>

NextStoppable ==
    \/ AddEvent
    \/ Signal
    \/ WhileTest
    \/ IfTestIn(Stoppable)
    \/ SkipMainLoop
    \/ StartIn(Stoppable)
    \/ GetNewEventsIn(Stoppable)
    \/ ProcessEventIn(Stoppable)
    \/ FinishLoopIn(Stoppable)

SpecStoppable == Init /\ [][NextStoppable]_vars

\* The daemon when plugin files may fail to load, callbacks may raise and
\* every fetch succeeds; the process is not killed.
Misbehaving == [Connected EXCEPT !.contents = {"ok", "broken"}]

NextMisbehaving ==
    \/ Tick
    \/ AddEvent
    \/ StartIn(Misbehaving)
    \/ GetNewEventsIn(Misbehaving)
    \/ ProcessEventIn(Misbehaving)
    \/ FinishLoopIn(Misbehaving)

SpecMisbehaving == Init /\ [][NextMisbehaving]_vars /\ Fairness

\* The daemon started after the plugin file a.py was added to a directory
\* whose plugin b.py has run before: the cursor file holds b.py's state
\* only, with or without a backlog entry for the missing event 2.
InitAdded ==
    /\ now = 0
    /\ upstream = {Event(1, 0), Event(3, 0)}
    /\ disk = [k \in {<<"c1", "a.py">>, <<"c1", "b.py">>} |-> 0]
    /\ plugins = NewPlugins(DOMAIN disk)
    /\ \E state \in {[lastEventId |-> 1, backlog |-> << >>],
                      [lastEventId |-> 3, backlog |-> [g \in {2} |-> BACKLOG_TIMEOUT]]} :
          eventIdFile = << [k \in {<<"c1", "b.py">>} |-> state] >>
    /\ maxEventBatchSize \in 1..MaxEventBatchSize
    /\ pc = "down"
    /\ events = <<>>
    /\ index = 0
    /\ calls = <<>>
    /\ wrote = FALSE
    /\ delivered = NoneDelivered
    /\ expired = NoneDelivered
    /\ lostWork = FALSE
    /\ neverHappened = NoneDelivered
    /\ lastFetch = NoFetch
    /\ seededId = None
    /\ probe = NoProbe
    /\ killer = NewKiller

SpecAdded == InitAdded /\ [][NextMisbehaving]_vars

\* The daemon with one plugin when every fetch succeeds, no user function
\* raises and the process is not killed, with the ids logged as "never
\* happened" kept.
Skipping == [Reliable EXCEPT !.connected = {TRUE}, !.raises = FALSE, !.trace = {"skip"}]

\* The wall clock reaches BACKLOG_TIMEOUT, and then goes beyond it.
TickPast ==
    /\ now' = IF now < BACKLOG_TIMEOUT THEN BACKLOG_TIMEOUT ELSE now + 1
    /\ now' <= MaxTime
    /\ calls' = <<>> /\ wrote' = FALSE
    /\ UNCHANGED <<upstream, disk, eventIdFile, maxEventBatchSize, pc, events, index,
                   plugins, delivered, expired, lostWork, neverHappened, lastFetch,
                   seededId, probe, killer>>

NextSkipping ==
    \/ TickPast
    \/ AddEvent
    \/ StartIn(Skipping)
    \/ GetNewEventsIn(Skipping)
    \/ ProcessEventIn(Skipping)
    \/ FinishLoopIn(Skipping)

SpecSkipping == InitWith({<<"c1", "a.py">>}) /\ [][NextSkipping]_vars

\* ------------------------------------------------------------- single calls
\* The daemon's variables, which a single call leaves alone.
daemon == <<now, upstream, disk, eventIdFile, maxEventBatchSize, pc, events, index,
            plugins, calls, wrote, delivered, expired, lostWork, neverHappened, lastFetch, seededId,
            killer>>

\* The attribute specifications and the filters a plugin may register: a
\* filter maps some of the event types and "*" to an attribute
\* specification (None, or a list that may hold "*" or the empty string).
AttrSpecs == {NoAttrs, Attrs({"*"}), Attrs({"status"}), Attrs({"status", "name"}), Attrs({""})}
FilterKeys == {"*", "Task_Change", "Task_New"}
Filters == UNION {[S -> AttrSpecs] : S \in SUBSET FilterKeys}

\* The events a filter is tried on.
FilterEvents ==
    {[id |-> 1, created_at |-> 0, event_type |-> ty, attribute_name |-> a] :
        ty \in {"Task_Change", "Task_New"}, a \in {"status", "name", ""}}

\* Plugin._process of one event by a plugin whose only callback is active
\* and was registered with the filter.
ProcessFiltered ==
    \E F \in Filters, e \in FilterEvents :
        LET callback == NewCallback([stopOnError |-> FALSE, matchEvents |-> F])
            plugin == [NewPlugin EXCEPT !.callbacks = <<callback>>]
            r == Plugin__process(<<"c1", "a.py">>, plugin, e, {})
        IN  /\ probe' = [method |-> "_process", filter |-> F, event |-> e,
                         invoked |-> r.calls # <<>>]
            /\ UNCHANGED daemon

SpecFilter == Init /\ [][ProcessFiltered]_vars

\* The (lastEventId, backlog) pairs a plugin may hold: no cursor, 0 or an
\* event id, and a backlog of event ids with expiry times.
CursorStates ==
    {[lastEventId |-> id, backlog |-> b] :
        id \in {None} \cup 0..MaxCursorId,
        b \in UNION {[S -> {BACKLOG_TIMEOUT, MaxTime + BACKLOG_TIMEOUT}] :
                        S \in SUBSET (1..MaxCursorId)}}

\* The plugin files of the deployments whose cursor map is saved and
\* loaded: one plugin, one plugin in each directory, two plugins in one
\* directory.
CursorFiles ==
    {{<<"c1", "a.py">>}, PluginKeys, {<<"c1", "a.py">>, <<"c1", "b.py">>}}

\* The cursor file before the save: none, or one written by a deployment
\* that had a plugin b.py in each directory.
EarlierFiles ==
    {NoFile,
     << [k \in {<<"c1", "b.py">>, <<"c2", "b.py">>} |->
            [lastEventId |-> IF k[1] = "c1" THEN 1 ELSE 2, backlog |-> << >>]] >>}

\* A daemon whose plugins hold any cursor map.
InitCursors ==
    /\ now = 0
    /\ upstream = {Event(1, 0)}
    /\ \E files \in CursorFiles :
          /\ disk = [k \in files |-> 0]
          /\ \E states \in [files -> CursorStates] :
                plugins = [k \in files |-> Plugin_setState(NewPlugin, states[k])]
    /\ eventIdFile \in EarlierFiles
    /\ maxEventBatchSize = 1
    /\ pc = "save"
    /\ events = <<>>
    /\ index = 0
    /\ calls = <<>>
    /\ wrote = FALSE
    /\ delivered = NoneDelivered
    /\ expired = NoneDelivered
    /\ lostWork = FALSE
    /\ neverHappened = NoneDelivered
    /\ lastFetch = NoFetch
    /\ seededId = None
    /\ probe = NoProbe
    /\ killer = NewKiller

\* _saveEventIdData, which succeeds in writing the cursor file, and then
\* _loadEventIdData, either in the same process (mainLoop) or in a process
\* started afterwards, whose plugins are new (Engine.start).
SaveThenLoad ==
    /\ probe = NoProbe
    /\ \E restarted \in BOOLEAN :
          LET saved == saveEventIdData(plugins, eventIdFile, TRUE)
              target == IF restarted THEN NewPlugins(DOMAIN plugins) ELSE plugins
              loaded == loadEventIdData(target, saved.file, upstream, TRUE)
          IN  /\ probe' = [method |-> "_loadEventIdData", before |-> plugins,
                           restarted |-> restarted]
              /\ plugins' = loaded.plugins
              /\ eventIdFile' = loaded.file
              /\ wrote' = saved.wrote
    /\ UNCHANGED <<now, upstream, disk, maxEventBatchSize, pc, events, index, calls,
                   delivered, expired, lostWork, neverHappened, lastFetch, seededId, killer>>

SpecCursors == InitCursors /\ [][SaveThenLoad]_vars

\* The state before the daemon is started on one of the deployments, with
\* the cursor file that the earlier deployment wrote when it had processed
\* the two events the upstream holds.
InitRedeployed ==
    /\ now = 0
    /\ upstream = {Event(1, 0), Event(2, 0)}
    /\ \E files \in CursorFiles : disk = [k \in files |-> 0] /\ plugins = NewPlugins(files)
    /\ eventIdFile \in EarlierFiles \ {NoFile}
    /\ maxEventBatchSize = MaxEventBatchSize
    /\ pc = "down"
    /\ events = <<>>
    /\ index = 0
    /\ calls = <<>>
    /\ wrote = FALSE
    /\ delivered = NoneDelivered
    /\ expired = NoneDelivered
    /\ lostWork = FALSE
    /\ neverHappened = NoneDelivered
    /\ lastFetch = NoFetch
    /\ seededId = None
    /\ probe = NoProbe
    /\ killer = NewKiller

NextRedeployed ==
    \/ Tick
    \/ AddEvent
    \/ StartIn(Connected)
    \/ GetNewEventsIn(Connected)
    \/ ProcessEventIn(Connected)
    \/ FinishLoopIn(Connected)

SpecRedeployed == InitRedeployed /\ [][NextRedeployed]_vars /\ Fairness

\* The cursor maps a cursor file may hold after the plugin directories were
\* reorganised: entries under a path that is no longer configured, under
\* the second directory, and for one plugin of the first.
PersistedMaps ==
    LET keys == {<<"old", "a.py">>, <<"old", "b.py">>, <<"c2", "a.py">>,
                 <<"c2", "b.py">>, <<"c1", "b.py">>}
        states == {[lastEventId |-> id, backlog |-> b] :
                      id \in {None} \cup 1..MaxCursorId,
                      b \in {<< >>, [g \in {1} |-> BACKLOG_TIMEOUT]}}
    IN  UNION {[S -> states] : S \in SUBSET keys \ {{}}}

\* _loadEventIdData of a new process whose cursor file holds one of the maps.
LoadPersisted ==
    /\ probe = NoProbe /\ pc = "down"
    /\ \E data \in PersistedMaps :
          LET r == loadEventIdData(plugins, <<data>>, upstream, TRUE)
          IN  /\ probe' = [method |-> "_loadEventIdData", raised |-> r.raised]
              /\ eventIdFile' = <<data>>
              /\ plugins' = r.plugins
    /\ UNCHANGED <<now, upstream, disk, maxEventBatchSize, pc, events, index, calls,
                   wrote, delivered, expired, lostWork, neverHappened, lastFetch,
                   seededId, killer>>

SpecPersisted == InitRedeployed /\ [][LoadPersisted]_vars

\* Plugin.getNextUnprocessedEventId of one plugin, at the start or once
\* the first expiry time has passed.
AskNextUnprocessedEventId ==
    /\ probe = NoProbe
    /\ \E k \in DOMAIN plugins, t \in {0, BACKLOG_TIMEOUT + 1} :
          LET r == Plugin_getNextUnprocessedEventId(plugins[k], t)
          IN  probe' = [method |-> "getNextUnprocessedEventId", before |-> plugins[k],
                        at |-> t, after |-> r.plugin, nextId |-> r.nextId]
    /\ UNCHANGED daemon

SpecNextId == InitCursors /\ [][AskNextUnprocessedEventId]_vars

TypeOK ==
    /\ now \in 0..MaxTime
    /\ pc \in {"down", "fetch", "dispatch", "save"}
    /\ \A k \in PluginKeys : plugins[k].lastEventId \in {None} \cup EventIds

\* ------------------------------------------------------------- properties
\* A step of mainLoop's dispatch loop: Plugin.process is called on every
\* offered plugin for events[index].
Dispatching == pc = "dispatch" /\ index' = index + 1

\* C1: monotone cursor.  No Plugin.process call, for a backlog event or
\* any other, lowers the plugin's lastEventId.
C1_MonotoneCursor ==
    [][Dispatching =>
         \A k \in PluginKeys : plugins'[k].lastEventId >= plugins[k].lastEventId]_vars

\* C2: at most once.  In a run without restart, plugin reload or callback
\* failure, no callback is invoked with an event id it was invoked with
\* before.
C2_AtMostOnce ==
    [][\A n \in 1..Len(calls') :
          <<calls'[n].callback, calls'[n].id>> \notin delivered[calls'[n].plugin]]_vars

\* The event of an id is visible upstream.
Visible(id) == \E e \in upstream : e.id = id

\* Plugin k holds id g in its backlog and the entry has not expired.
LiveGap(k, g) ==
    /\ plugins[k].active
    /\ g \in DOMAIN plugins[k].backlog
    /\ ~(plugins[k].backlog[g] < now)

\* The last step invoked a callback of plugin k with event id.
Invoked(k, id) == \E n \in 1..Len(calls) : calls[n].plugin = k /\ calls[n].id = id

\* C3 as the spec states it: once an id in an active plugin's backlog is
\* visible upstream while its entry has not expired, the plugin eventually
\* dispatches it and the id leaves the backlog (or the plugin is
\* deactivated, or the run ends).
C3_NoSkipPastLiveGap ==
    \A k \in PluginKeys : \A g \in EventIds :
        (LiveGap(k, g) /\ Visible(g))
            ~> \/ Invoked(k, g) /\ g \notin DOMAIN plugins[k].backlog
               \/ ~plugins[k].active
               \/ pc = "down"

\* The invocations among cs that are of plugin k's callbacks.
CallsOf(k, cs) == SelectSeq(cs, LAMBDA c : c.plugin = k)

\* The callbacks of a plugin that are active and accept the event, in
\* registration order.
Matching(plugin, event) ==
    SortedSeq({i \in 1..Len(plugin.callbacks) :
                 plugin.callbacks[i].active /\ canProcess(plugin.callbacks[i].matchEvents, event)})

IsPrefix(s, t) == Len(s) <= Len(t) /\ \A n \in 1..Len(s) : s[n] = t[n]

\* What a dispatch step does for an offered plugin k that does not find the
\* event too old: its matching active callbacks are invoked with the event
\* in registration order, up to the first stopOnError callback that raises;
\* the plugin is deactivated exactly when there is one.
DispatchedTo(k) ==
    LET event == events[index]
        expected == Matching(plugins[k], event)
        made == CallsOf(k, calls')
        last == made[Len(made)]
    IN  /\ IsPrefix([n \in 1..Len(made) |-> made[n].callback], expected)
        /\ \A n \in 1..Len(made) : made[n].id = event.id
        /\ plugins'[k].active => Len(made) = Len(expected)
        /\ ~plugins'[k].active =>
              /\ made # <<>>
              /\ last.raised /\ plugins[k].callbacks[last.callback].stopOnError

\* C3: when an id in an active plugin's backlog has not expired, the engine
\* fetches from that id or a lower one; and when the event of an id in an
\* offered plugin's backlog is dispatched, the plugin's matching active
\* callbacks are invoked with it up to the first stopOnError callback that
\* raises, and if none raises the id is no longer in the backlog.
C3_LiveGapDispatched ==
    /\ [](\A k \in PluginKeys : \A g \in EventIds :
            LiveGap(k, g) =>
               NextEventId(plugins, now) # None /\ NextEventId(plugins, now) <= g)
    /\ [][Dispatching =>
            \A k \in PluginKeys :
               (OffersTo(plugins[k]) /\ events[index].id \in DOMAIN plugins[k].backlog)
                  => /\ DispatchedTo(k)
                     /\ plugins'[k].active => events[index].id \notin DOMAIN plugins'[k].backlog]_vars

\* C3's case: an id that the cursor file records in an active plugin's
\* backlog has just been dispatched to the plugin and has left the backlog.
C3_Witness ==
    \E k \in PluginKeys : \E g \in EventIds :
        /\ plugins[k].active /\ Invoked(k, g)
        /\ eventIdFile # NoFile /\ g \in DOMAIN eventIdFile[1][k].backlog
        /\ g \notin DOMAIN plugins[k].backlog

\* C4: gap expiry.  An id dropped from a plugin's backlog by timeout, its
\* event not having appeared upstream by then, is never dispatched to that
\* plugin afterwards in the run, even if its event appears later.
C4_GapExpiry ==
    [][\A n \in 1..Len(calls') : calls'[n].id \notin expired[calls'[n].plugin]]_vars

\* The ids dispatched to plugin k so far in the run.
DeliveredIds(k) == {d[2] : d \in delivered[k]}

\* C5: ordered delivery per plugin.  Whenever an event is dispatched to a
\* plugin whose id is not greater than every id dispatched to the plugin
\* before, the id was in the plugin's backlog at the moment of dispatch.
C5_OrderedDelivery ==
    [][\A n \in 1..Len(calls') :
          (\E j \in DeliveredIds(calls'[n].plugin) : j >= calls'[n].id)
              => calls'[n].id \in DOMAIN plugins[calls'[n].plugin].backlog]_vars

HasCursor(k) == plugins[k].active /\ plugins[k].lastEventId \notin {None, 0}

StopOnError(c) == plugins[c.plugin].callbacks[c.callback].stopOnError

\* The place of plugin k in the dispatch order.
Position(k) == CHOOSE n \in 1..Len(DispatchOrder) : DispatchOrder[n] = k

\* Whether Plugin.process finds the event too old for the plugin.
TooOld(plugin, event) ==
    /\ event.id \notin DOMAIN plugin.backlog
    /\ plugin.lastEventId # None /\ event.id <= plugin.lastEventId

\* Invocation n of a dispatch step raised in a callback of plugin k that was
\* registered with stopOnError.
StoppedBy(k, n) == calls'[n].plugin = k /\ calls'[n].raised /\ StopOnError(calls'[n])

\* What the claim of fault isolation promises after invocation n of a
\* dispatch step: the later matching active callbacks of the plugin and the
\* later plugins that take the event are invoked, the callback and its
\* plugin stay active, and the cursor is at or past the event.
Isolated(n) ==
    LET c == calls'[n]
        k == c.plugin
        event == events[index]
    IN  /\ \A i \in Range(Matching(plugins[k], event)) :
              i > c.callback =>
                 \E m \in (n + 1)..Len(calls') : calls'[m].plugin = k /\ calls'[m].callback = i
        /\ \A j \in PluginKeys :
              (/\ Position(j) > Position(k) /\ OffersTo(plugins[j])
               /\ ~TooOld(plugins[j], event) /\ Matching(plugins[j], event) # <<>>)
                 => DispatchedTo(j) /\ \E m \in (n + 1)..Len(calls') : calls'[m].plugin = j
        /\ plugins'[k].callbacks[c.callback].active
        /\ plugins'[k].active
        /\ plugins'[k].lastEventId >= event.id

C8_StopOnError ==
    [][Dispatching =>
         \A k \in PluginKeys :
            /\ \A n \in 1..Len(calls') :
                  StoppedBy(k, n) =>
                     /\ ~plugins'[k].callbacks[calls'[n].callback].active
                     /\ \A i \in Range(Matching(plugins[k], events[index])) :
                           i > calls'[n].callback =>
                              \E m \in (n + 1)..Len(calls') :
                                 calls'[m].plugin = k /\ calls'[m].callback = i
                     /\ plugins'[k].lastEventId = events[index].id
            /\ (/\ \E i \in 1..Len(plugins[k].callbacks) : ~plugins[k].callbacks[i].active
                 /\ ~TooOld(plugins[k], events[index]))
                  => [n \in 1..Len(CallsOf(k, calls')) |-> CallsOf(k, calls')[n].callback]
                        = Matching(plugins[k], events[index])]_vars

\* C8: when callback A (stopOnError=true) raises on an event, A and the
\* whole plugin are deactivated, no callback registered after A receives
\* the event, and the plugin's lastEventId and backlog are unchanged; an
\* inactive plugin is offered no later event and keeps its state.
C8_StopOnErrorDeactivatesPlugin ==
    [][Dispatching =>
         \A k \in PluginKeys :
            /\ \A n \in 1..Len(calls') :
                  StoppedBy(k, n) =>
                     /\ ~plugins'[k].callbacks[calls'[n].callback].active
                     /\ ~plugins'[k].active
                     /\ \A m \in (n + 1)..Len(calls') : calls'[m].plugin # k
                     /\ plugins'[k].lastEventId = plugins[k].lastEventId
                     /\ plugins'[k].backlog = plugins[k].backlog
            /\ ~plugins[k].active =>
                  CallsOf(k, calls') = <<>> /\ plugins'[k] = plugins[k]]_vars

\* C8's case: a plugin whose first callback was deactivated and whose
\* second is still active is inactive, and an event above its cursor has
\* just been dispatched to the other plugin only.
C8_Witness ==
    \E k \in PluginKeys :
        /\ ~plugins[k].active
        /\ ~plugins[k].callbacks[1].active /\ plugins[k].callbacks[2].active
        /\ calls # <<>> /\ CallsOf(k, calls) = <<>>
        /\ calls[1].id > plugins[k].lastEventId + 1

C10_RestartAfterCrash ==
    /\ [][(pc = "down" /\ pc' = "fetch" /\ lostWork) =>
             /\ eventIdFile # NoFile /\ eventIdFile' = eventIdFile
             /\ \A k \in PluginKeys : Plugin_getState(plugins'[k]) = eventIdFile[1][k]]_vars
    /\ [][(pc = "fetch" /\ pc' = "dispatch" /\ lostWork) =>
             /\ \A n \in 1..(Len(events') - 1) : events'[n].id < events'[n + 1].id
             /\ \A k \in PluginKeys : \A e \in upstream :
                   (HasCursor(k) /\ plugins[k].lastEventId < e.id
                      /\ e.id <= events'[Len(events')].id)
                      => \E n \in 1..Len(events') : events'[n] = e]_vars
    /\ [][(Dispatching /\ index' <= Len(events)) =>
             events[index].id < events[index'].id]_vars
    /\ [][Dispatching =>
             \A k \in PluginKeys :
                (/\ OffersTo(plugins[k]) /\ plugins[k].lastEventId # None
                 /\ events[index].id > plugins[k].lastEventId)
                   => /\ DispatchedTo(k)
                      /\ Matching(plugins[k], events[index]) # <<>> => CallsOf(k, calls') # <<>>]_vars

\* C10's case: the daemon has restarted after such a crash, its plugins
\* hold the persisted state, and an event above a persisted cursor is
\* visible upstream.
C10_Witness ==
    /\ lostWork /\ pc = "fetch" /\ eventIdFile # NoFile
    /\ \A k \in PluginKeys : Plugin_getState(plugins[k]) = eventIdFile[1][k]
    /\ \E k \in PluginKeys :
          /\ DOMAIN plugins[k].backlog # {}
          /\ \E e \in upstream : e.id > plugins[k].lastEventId

\* A step in which mainLoop calls _getNewEvents.
Fetching == pc = "fetch" /\ pc' \in {"dispatch", "save"}

\* The rest of a loop iteration whose fetch exhausted its connection
\* attempts: no event is dispatched, nothing is persisted, and no plugin's
\* cursor or backlog changes.
IdleAfterFailedFetch ==
    (pc = "save" /\ pc' = "fetch" /\ lastFetch.failed) =>
        /\ calls' = <<>> /\ ~wrote' /\ eventIdFile' = eventIdFile
        /\ \A k \in PluginKeys : Plugin_getState(plugins'[k]) = Plugin_getState(plugins[k])

\* C11 as the spec states it: retry exhaustion.  When every connection
\* attempt of a fetch fails, the fetch returns an empty batch, no event is
\* dispatched, no plugin's lastEventId or backlog changes, nothing is
\* persisted in the iteration, and the next iteration fetches from the
\* same id.
C11_RetryExhaustion ==
    /\ [][(Fetching /\ lastFetch'.failed) =>
             /\ events' = <<>> /\ pc' = "save"
             /\ calls' = <<>> /\ ~wrote' /\ eventIdFile' = eventIdFile
             /\ \A k \in PluginKeys :
                   Plugin_getState(plugins'[k]) = Plugin_getState(plugins[k])]_vars
    /\ [][IdleAfterFailedFetch]_vars
    /\ [][(Fetching /\ lastFetch.failed) =>
             lastFetch'.nextEventId = lastFetch.nextEventId]_vars

\* C11: when every connection attempt of a fetch fails, the fetch returns
\* an empty batch, no event is dispatched, no plugin's lastEventId changes,
\* a backlog loses exactly the entries of its active plugin that had
\* expired when the fetch id was computed, nothing is persisted in the
\* iteration, and the next iteration fetches from the same id unless a
\* backlog entry of an active plugin has expired in between.
C11_RetryExhaustionKeepsCursor ==
    /\ [][(Fetching /\ lastFetch'.failed) =>
             /\ events' = <<>> /\ pc' = "save"
             /\ calls' = <<>> /\ ~wrote' /\ eventIdFile' = eventIdFile
             /\ \A k \in PluginKeys :
                   /\ plugins'[k].lastEventId = plugins[k].lastEventId
                   /\ DOMAIN plugins'[k].backlog =
                         DOMAIN plugins[k].backlog \
                            (IF AsksPlugin(plugins[k]) THEN ExpiredKeys(plugins[k], now) ELSE {})
                   /\ \A g \in DOMAIN plugins'[k].backlog :
                         plugins'[k].backlog[g] = plugins[k].backlog[g]]_vars
    /\ [][IdleAfterFailedFetch]_vars
    /\ [][(Fetching /\ lastFetch.failed) =>
             \/ lastFetch'.nextEventId = lastFetch.nextEventId
             \/ \E k \in PluginKeys :
                   AsksPlugin(plugins[k]) /\ ExpiredKeys(plugins[k], now) # {}]_vars

\* C11's case: the fetch of this iteration failed while the upstream held
\* an event at or above the id asked for, and a plugin holds a backlog.
C11_Witness ==
    /\ pc = "save" /\ lastFetch.failed /\ events = <<>>
    /\ \E e \in upstream : e.id >= lastFetch.nextEventId
    /\ \E k \in PluginKeys : plugins[k].active /\ DOMAIN plugins[k].backlog # {}

\* C12: bootstrap.  When start() finds no cursor file and the highest event
\* id of the upstream is M, every plugin has lastEventId M and an empty
\* backlog after it, no callback was invoked, and the cursor file has been
\* written with that state; and no event with an id at or below M is
\* dispatched to a callback afterwards.
C12_Bootstrap ==
    /\ [][(pc = "down" /\ pc' = "fetch" /\ eventIdFile = NoFile) =>
             /\ \A k \in PluginKeys :
                   /\ plugins'[k].lastEventId = SetMax({e.id : e \in upstream})
                   /\ DOMAIN plugins'[k].backlog = {}
             /\ calls' = <<>>
             /\ wrote' /\ eventIdFile' # NoFile
             /\ \A k \in PluginKeys :
                   eventIdFile'[1][k] = Plugin_getState(plugins'[k])]_vars
    /\ [](\A n \in 1..Len(calls) : calls[n].id > seededId)

\* C12's case: the daemon was bootstrapped without a cursor file when the
\* upstream held several events, and has since dispatched a later event.
C12_Witness ==
    /\ seededId >= 2
    /\ \A id \in 1..seededId : \E e \in upstream : e.id = id
    /\ calls # <<>>
    /\ \A k \in PluginKeys : plugins[k].lastEventId > seededId

\* The dispatch order the configuration and the file names prescribe for
\* the deployment with two plugins in the first directory: directory c1
\* before c2, and a.py before b.py within c1.
PrescribedOrder == << <<"c1", "a.py">>, <<"c1", "b.py">>, <<"c2", "b.py">> >>

Place(k) == CHOOSE n \in 1..Len(PrescribedOrder) : PrescribedOrder[n] = k

\* C13: deterministic order.  The events of a batch are dispatched in
\* ascending id order; the invocations made for one event are all for that
\* event and are ordered by collection in configured order, then by plugin
\* basename, then by registration order of the callback; and they are
\* determined by the state of the plugins and by which user functions
\* raise: each plugin that takes the event invokes its matching active
\* callbacks up to the first stopOnError callback that raises, and no other
\* plugin invokes any.
C13_DeterministicOrder ==
    /\ [][Dispatching =>
             /\ \A n \in 1..Len(calls') : calls'[n].id = events[index].id
             /\ \A n \in 1..Len(calls') : \A m \in (n + 1)..Len(calls') :
                   \/ Place(calls'[n].plugin) < Place(calls'[m].plugin)
                   \/ /\ calls'[n].plugin = calls'[m].plugin
                      /\ calls'[n].callback < calls'[m].callback
             /\ \A k \in DOMAIN plugins :
                   IF OffersTo(plugins[k]) /\ ~TooOld(plugins[k], events[index])
                   THEN DispatchedTo(k)
                   ELSE CallsOf(k, calls') = <<>>]_vars
    /\ [][(Dispatching /\ index' <= Len(events)) =>
             events[index].id < events[index'].id]_vars

\* C13's case: the second event of a batch has been dispatched to all
\* three plugins, two callbacks of the first plugin among them.
C13_Witness ==
    /\ pc = "save" /\ index = 3
    /\ \A k \in MorePluginKeys : CallsOf(k, calls) # <<>>
    /\ Len(CallsOf(<<"c1", "a.py">>, calls)) = 2
    /\ Len(CallsOf(<<"c1", "b.py">>, calls)) = 2

\* What the specification of an event filter says of filter F and event e:
\* the event's type is a key of F or the wildcard entry exists, and the
\* attribute specification mapped to (that of the event's own type when it
\* has one, else that of the wildcard) is all attributes or holds the
\* event's attribute name.
FilterMatches(F, e) ==
    /\ e.event_type \in DOMAIN F \/ "*" \in DOMAIN F
    /\ LET mapped == IF e.event_type \in DOMAIN F THEN F[e.event_type] ELSE F["*"]
       IN  mapped.isNone \/ "*" \in mapped.names \/ e.attribute_name \in mapped.names

\* C14 as the spec states it: filter correctness.  An active callback
\* registered with a filter F (a mapping with at least one entry) is invoked
\* for event e exactly when F matches e.
C14_FilterCorrectness ==
    (probe.method = "_process" /\ probe.filter # NoFilter) =>
        (probe.invoked <=> FilterMatches(probe.filter, probe.event))

\* C14: an active callback registered without a filter, or with an empty
\* one, is invoked for every event.  One registered with a filter F that
\* has entries is invoked for event e exactly when F holds the wildcard
\* entry or an entry for e's type and the attribute specification of the
\* wildcard entry, if there is one, and else of the entry for e's type, is
\* all attributes or holds e's attribute name, which is not empty.
C14_FilterWildcardFirst ==
    probe.method = "_process" =>
        LET F == probe.filter
            e == probe.event
            key == IF "*" \in DOMAIN F THEN "*" ELSE e.event_type
        IN  probe.invoked <=>
               \/ F = NoFilter
               \/ /\ key \in DOMAIN F
                  /\ \/ F[key].isNone
                     \/ "*" \in F[key].names
                     \/ e.attribute_name # "" /\ e.attribute_name \in F[key].names

\* C14's case: a filter with a wildcard entry that does not accept the
\* event's attribute and an entry for the event's own type that does; the
\* callback was not invoked.
C14_Witness ==
    /\ probe.method = "_process" /\ ~probe.invoked
    /\ {"*", probe.event.event_type} \subseteq DOMAIN probe.filter
    /\ probe.filter["*"] = Attrs({"status"})
    /\ probe.filter[probe.event.event_type] = Attrs({"status", "name"})
    /\ probe.event.attribute_name = "name"

Loading == pc \in {"down", "save"} /\ pc' = "fetch"

\* The plugins of k's collection other than k.
Siblings(k) == {j \in DOMAIN plugins : j[1] = k[1] /\ j # k}

SameCursor(k) ==
    /\ plugins'[k].lastEventId = plugins[k].lastEventId
    /\ plugins'[k].backlog = plugins[k].backlog

\* C16: plugin-load failure isolation.  When a load of the collections
\* evaluates a plugin's file and that fails (the file raises,
\* registerCallbacks is missing, or registerCallbacks raises), the plugin
\* is inactive afterwards, its lastEventId and backlog are as before if
\* the plugin existed, and each other plugin of the collection is active
\* if its file was evaluated without failure and as it was if its file
\* was not evaluated.  An inactive plugin is dispatched nothing and keeps
\* its cursor, while every active plugin of the collection that does not
\* find the event too old has its matching callbacks invoked.  When a later
\* load evaluates the file of an inactive plugin without failure, the
\* plugin is active with the lastEventId and backlog it had.
C16_LoadFailureIsolation ==
    /\ [][Loading =>
            \A k \in DOMAIN plugins :
               /\ (k \in Reloading(plugins, disk) /\ probe'.contents[k] # "ok") =>
                     /\ ~plugins'[k].active
                     /\ pc = "save" => SameCursor(k)
                     /\ \A j \in Siblings(k) :
                           IF j \in Reloading(plugins, disk)
                           THEN plugins'[j].active <=> probe'.contents[j] = "ok"
                           ELSE /\ plugins'[j].active = plugins[j].active
                                /\ plugins'[j].callbacks = plugins[j].callbacks
               /\ (/\ pc = "save" /\ ~plugins[k].active
                    /\ k \in Reloading(plugins, disk) /\ probe'.contents[k] = "ok") =>
                     /\ plugins'[k].active
                     /\ plugins'[k].callbacks = RegisterCallbacks(Registered(k))
                     /\ SameCursor(k)]_vars
    /\ [][Dispatching =>
            \A k \in DOMAIN plugins :
               IF plugins[k].active
               THEN ~TooOld(plugins[k], events[index]) =>
                       [n \in 1..Len(CallsOf(k, calls')) |-> CallsOf(k, calls')[n].callback]
                          = Matching(plugins[k], events[index])
               ELSE CallsOf(k, calls') = <<>> /\ plugins'[k] = plugins[k]]_vars

\* C16's case: the file of c1/b.py failed to load and was modified; the
\* plugin has just been reloaded and is active with the cursor it had,
\* which c1/a.py has moved past by being dispatched events meanwhile.
C16_Witness ==
    /\ pc = "fetch" /\ probe.method = "load"
    /\ plugins[<<"c1", "b.py">>].active /\ plugins[<<"c1", "b.py">>].mtime = 1
    /\ plugins[<<"c1", "a.py">>].active /\ plugins[<<"c1", "a.py">>].mtime = 0
    /\ plugins[<<"c1", "b.py">>].lastEventId = 1
    /\ plugins[<<"c1", "a.py">>].lastEventId = 3

\* C17: state persistence failure.  When writing the cursor file fails in
\* a loop iteration, the loop goes on with the next iteration and no
\* plugin's in-memory lastEventId or backlog is changed by the persist and
\* re-resolve steps of the iteration.
C17_PersistenceFailure ==
    [][(pc = "save" /\ probe' = SaveRaised) =>
          /\ pc' = "fetch"
          /\ \A k \in DOMAIN plugins : SameCursor(k)]_vars

\* C18: cooperative stop.  Once a signal has set kill_now, the iteration in
\* flight runs to its end (the process does not leave the dispatch loop or
\* the persist step, and the cursor file is written after a batch that
\* held events) and no iteration fetches.
C18_CooperativeStop ==
    /\ [][(killer.kill_now /\ pc \in {"dispatch", "save"}) =>
            /\ pc' \in {"dispatch", "save", "fetch"}
            /\ (pc = "save" /\ pc' = "fetch" /\ events # <<>>) => wrote']_vars
    /\ [][Fetching => ~killer.kill_now]_vars

\* C19: supervisor re-entry.  When an exception is raised in an iteration
\* of the engine loop, in Engine.start or in a later mainLoop, the process
\* lives on and the loop is run again.
C19_SupervisorReentry ==
    [][(probe # SaveRaised /\ probe' = SaveRaised) => pc' = "fetch"]_vars

\* Some plugin other than k is inactive.
OtherInactive(k) == \E j \in DOMAIN plugins : j # k /\ ~plugins[j].active

\* The plugins that are active.
ActivePlugins == [k \in {j \in DOMAIN plugins : plugins[j].active} |-> plugins[k]]

C21_PluginFatalFailure ==
    [][Dispatching =>
         \A n \in 1..Len(calls') :
            LET c == calls'[n]
                k == c.plugin
            IN  (c.raised /\ plugins[k].callbacks[c.callback].stopOnError) =>
                   /\ ~plugins'[k].callbacks[c.callback].active
                   /\ ~plugins'[k].active
                   /\ \A m \in 1..Len(calls') :
                         calls'[m].plugin = k => calls'[m].callback <= c.callback
                   /\ plugins'[k].lastEventId = plugins[k].lastEventId
                   /\ DOMAIN plugins'[k].backlog = DOMAIN plugins[k].backlog
                   /\ c.id \in DOMAIN plugins[k].backlog =>
                         /\ c.id \in DOMAIN plugins'[k].backlog
                         /\ plugins'[k].backlog[c.id] = plugins[k].backlog[c.id]]_vars

\* C21's case: the first callback of c1/a.py, registered with stopOnError,
\* has just raised on an event of the plugin's backlog; its second callback
\* was not invoked, the plugin is inactive and the id is still in the
\* backlog.
C21_Witness ==
    LET k == <<"c1", "a.py">>
    IN  /\ Len(calls) >= 1 /\ calls[1].plugin = k /\ calls[1].callback = 1
        /\ calls[1].raised
        /\ \A m \in 2..Len(calls) : calls[m].plugin # k
        /\ ~plugins[k].active /\ ~plugins[k].callbacks[1].active
        /\ calls[1].id \in DOMAIN plugins[k].backlog
        /\ calls[1].id < plugins[k].lastEventId

\* C22: gap within timeout.  When an active plugin with cursor L is
\* dispatched an event e that leaves it active, with e.id > L + 1 and e
\* created at most BACKLOG_TIMEOUT ago, every id of L+1..e.id-1 is in the
\* backlog afterwards with expiration now + BACKLOG_TIMEOUT and the cursor
\* is e.id; and when it is dispatched an event whose id is in its backlog,
\* the id leaves the backlog and the cursor stays where it was.
C22_GapWithinTimeout ==
    [][Dispatching =>
         \A k \in PluginKeys :
            LET e == events[index]
                L == plugins[k].lastEventId
            IN  (plugins[k].active /\ plugins'[k].active) =>
                   /\ (/\ L # None /\ e.id \notin DOMAIN plugins[k].backlog
                        /\ e.id > L + 1 /\ now <= e.created_at + BACKLOG_TIMEOUT) =>
                         /\ \A g \in (L + 1)..(e.id - 1) :
                               /\ g \in DOMAIN plugins'[k].backlog
                               /\ plugins'[k].backlog[g] = now + BACKLOG_TIMEOUT
                         /\ plugins'[k].lastEventId = e.id
                   /\ e.id \in DOMAIN plugins[k].backlog =>
                         /\ e.id \notin DOMAIN plugins'[k].backlog
                         /\ plugins'[k].lastEventId = L]_vars

\* C23: gap past timeout.  When an active plugin with cursor L is
\* dispatched an event e that leaves it active, with e.id > L + 1 and e
\* created more than BACKLOG_TIMEOUT ago, its backlog gains no id and its
\* cursor becomes e.id; and no callback of a plugin is invoked in the same
\* run for an id that the plugin has discarded in this way.
C23_GapPastTimeout ==
    [][/\ Dispatching =>
            \A k \in DOMAIN plugins :
               Discards(plugins[k], plugins'[k], events[index], now) =>
                  /\ DOMAIN plugins'[k].backlog \subseteq DOMAIN plugins[k].backlog
                  /\ plugins'[k].lastEventId = events[index].id
       /\ \A n \in 1..Len(calls') :
             calls'[n].id \notin neverHappened[calls'[n].plugin]]_vars

\* C24: re-offered events are absorbed.  When a plugin with a cursor is
\* offered an event whose id is at or below the cursor and is not in its
\* backlog, none of its callbacks is invoked and the plugin (cursor,
\* backlog, callbacks, active flag) is unchanged.
C24_ReofferedAbsorbed ==
    [][Dispatching =>
         \A k \in DOMAIN plugins :
            (OffersTo(plugins[k]) /\ TooOld(plugins[k], events[index])) =>
               /\ \A n \in 1..Len(calls') : calls'[n].plugin # k
               /\ plugins'[k].lastEventId = plugins[k].lastEventId
               /\ plugins'[k].backlog = plugins[k].backlog
               /\ plugins'[k].callbacks = plugins[k].callbacks
               /\ plugins'[k].active = plugins[k].active]_vars

\* An event below the cursor of plugin a.py, which is active and has a
\* callback for every event, was dispatched: the other plugin's callbacks
\* were invoked and a.py's were not.
C24_Witness ==
    LET k == <<"c1", "a.py">>
    IN  /\ pc \in {"dispatch", "save"} /\ index > 1
        /\ plugins[k].active /\ plugins[k].callbacks[1].active
        /\ plugins[k].lastEventId # None
        /\ events[index - 1].id < plugins[k].lastEventId
        /\ events[index - 1].id \notin DOMAIN plugins[k].backlog
        /\ calls # <<>>
        /\ \A n \in 1..Len(calls) : calls[n].plugin # k /\ calls[n].id = events[index - 1].id

\* C25: the backlog fills only past gaps.  In every reachable state, every
\* key of a plugin's backlog is strictly less than the plugin's cursor.
C25_BacklogBelowCursor ==
    \A k \in DOMAIN plugins :
       \A g \in DOMAIN plugins[k].backlog :
          plugins[k].lastEventId # None /\ g < plugins[k].lastEventId

\* C26: backlog removal discipline.  In a running process, an id leaves a
\* plugin's backlog only in the dispatch of the event of that id when it
\* leaves the plugin active, or in a fetch (getNextUnprocessedEventId) when
\* its expiration is in the past; a key that stays in the backlog is not
\* added again by any step (its entry is unchanged); and the end of an
\* iteration (persisting, reloading the plugins, re-resolving the cursors
\* from the cursor file) leaves every backlog as it is.
C26_RemovalDiscipline ==
    [][(pc # "down" /\ pc' # "down") =>
         \A k \in DOMAIN plugins :
            /\ \A g \in DOMAIN plugins[k].backlog \ DOMAIN plugins'[k].backlog :
                  \/ Dispatching /\ events[index].id = g /\ plugins'[k].active
                  \/ pc = "fetch" /\ plugins[k].backlog[g] < now
            /\ \A g \in DOMAIN plugins[k].backlog \cap DOMAIN plugins'[k].backlog :
                  plugins'[k].backlog[g] = plugins[k].backlog[g]
            /\ pc = "save" => plugins'[k].backlog = plugins[k].backlog]_vars

\* C27: getNextUnprocessedEventId, for every plugin state (no cursor,
\* cursor 0 or positive; backlog empty or not; entries expired or not),
\* removes exactly the backlog keys whose expiration is in the past,
\* returns none when there is no cursor, and otherwise returns the minimum
\* of lastId + 1 and the smallest remaining backlog key.
C27_NextUnprocessedEventId ==
    probe.method = "getNextUnprocessedEventId" =>
        LET before == probe.before
            live == {g \in DOMAIN before.backlog : ~(before.backlog[g] < probe.at)}
            candidates == {before.lastEventId + 1} \cup live
        IN  /\ DOMAIN probe.after.backlog = live
            /\ \A g \in live : probe.after.backlog[g] = before.backlog[g]
            /\ before.lastEventId = None => probe.nextId = None
            /\ before.lastEventId # None =>
                  /\ probe.nextId \in candidates
                  /\ \A g \in candidates : probe.nextId <= g

\* The id plugin k gives when asked for its next unprocessed event id now.
NextOf(k) == Plugin_getNextUnprocessedEventId(plugins[k], now).nextId

\* The active plugins that give an id when asked.
Asked == {k \in DOMAIN plugins : plugins[k].active /\ NextOf(k) # None}

\* A fetch step asks the upstream from the minimum m of the next
\* unprocessed ids of the active plugins that give one, and asks nothing
\* when there is none; a fetch that connects returns the visible events
\* with id >= m in ascending order, as many as there are up to
\* maxEventBatchSize.
FetchesFromMinimum ==
    Fetching =>
       /\ Asked = {} => lastFetch'.nextEventId = None /\ events' = <<>>
       /\ Asked # {} =>
             LET m == lastFetch'.nextEventId
                 visible == {e \in upstream : e.id >= m}
             IN  /\ \E k \in Asked : m = NextOf(k)
                 /\ \A k \in Asked : m <= NextOf(k)
                 /\ Len(events') <= maxEventBatchSize
                 /\ \A n \in 1..Len(events') : events'[n] \in visible
                 /\ \A n \in 1..(Len(events') - 1) : events'[n].id < events'[n + 1].id
                 /\ ~lastFetch'.failed =>
                       /\ Len(events') = maxEventBatchSize \/ Len(events') = Cardinality(visible)
                       /\ \A e \in visible : \A n \in 1..Len(events') :
                             e.id < events'[n].id => \E j \in 1..n : events'[j] = e

\* C28 as the spec states it: fetch position.  Every fetch asks from the
\* minimum next unprocessed id of the active plugins, and no active plugin
\* with a cursor is offered a batch whose first id is above its own next
\* unprocessed id.
C28_FetchPosition ==
    [][/\ FetchesFromMinimum
       /\ Fetching =>
             \A k \in Asked :
                (plugins[k].lastEventId # None /\ events' # <<>>) =>
                   events'[1].id <= NextOf(k)]_vars

\* C28, amended: every fetch asks from the minimum next unprocessed id of
\* the active plugins, so the id asked from is not above the next
\* unprocessed id of any active plugin with a cursor, and the batch leaves
\* out no visible event between that plugin's next unprocessed id and the
\* first id of the batch.
C28_FetchPositionVisible ==
    [][/\ FetchesFromMinimum
       /\ Fetching =>
             \A k \in Asked :
                (plugins[k].lastEventId # None /\ events' # <<>>) =>
                   /\ lastFetch'.nextEventId <= NextOf(k)
                   /\ \A e \in upstream : ~(NextOf(k) <= e.id /\ e.id < events'[1].id)]_vars

\* A fetch by two active plugins with different next unprocessed ids was
\* made from the smaller one, and its batch starts above it.
C28_Witness ==
    /\ pc = "dispatch" /\ index = 1
    /\ \E j \in DOMAIN plugins, k \in DOMAIN plugins :
          /\ plugins[j].active /\ plugins[k].active
          /\ plugins[j].lastEventId # None /\ plugins[k].lastEventId # None
          /\ NextOf(j) < NextOf(k)
          /\ lastFetch.nextEventId = NextOf(j)
          /\ events[1].id > NextOf(j)

\* C29: bootstrap inside the loop.  When the daemon is to fetch and no
\* active plugin yields a next unprocessed id, the engine seeds every
\* plugin with the upstream's current max id: eventually every plugin has
\* a cursor.
C29_BootstrapInLoop ==
    (pc = "fetch" /\ Asked = {}) ~> (\A k \in DOMAIN plugins : plugins[k].lastEventId # None)

\* C30: no plugin is left without a cursor.  After the cursor resolution
\* of a start, and after the re-resolve step of an iteration that
\* processed events, every loaded plugin has a cursor; and a plugin that
\* has no entry in the persisted map gets the upstream's current max id at
\* the start.
C30_NoPluginWithoutCursor ==
    [][/\ ((pc = "down" \/ (pc = "save" /\ events # <<>>)) /\ pc' = "fetch") =>
             \A k \in DOMAIN plugins' : plugins'[k].lastEventId # None
       /\ (pc = "down" /\ pc' = "fetch") =>
             \A k \in DOMAIN plugins' \ DOMAIN FileData(eventIdFile) :
                plugins'[k].lastEventId = getLastEventIdFromDatabase(upstream)]_vars

\* C31: name-based fallback.  When the persisted map has no entry for a
\* present collection's path, _loadEventIdData gives each plugin of that
\* collection whose name occurs under another path of the map the
\* persisted state with the highest lastId among the entries of that name,
\* and each plugin whose name occurs nowhere in the map the upstream's
\* current max id.
C31_NameFallback ==
    (probe.method = "_loadEventIdData" /\ pc = "down") =>
        LET data == eventIdFile[1]
        IN  \A k \in DOMAIN plugins :
               {j \in DOMAIN data : j[1] = k[1]} = {} =>
                  LET named == {j \in DOMAIN data : j[2] = k[2]}
                  IN  /\ ~probe.raised
                      /\ named # {} =>
                            \E j \in named :
                               /\ \A i \in named : data[i].lastEventId <= data[j].lastEventId
                               /\ Plugin_getState(plugins[k]) = data[j]
                      /\ named = {} =>
                            plugins[k].lastEventId = getLastEventIdFromDatabase(upstream)

\* C32: Plugin.load is idempotent when the file's mtime has not advanced.
\* Through the reload cycle at the end of an iteration, a plugin that was
\* loaded and whose file is not newer keeps its callbacks list, every
\* callback's active flag, its own active flag, its lastEventId and its
\* backlog; so a plugin or callback deactivated by a failure stays
\* inactive.
C32_LoadIdempotent ==
    [][(pc = "save" /\ pc' = "fetch") =>
         \A k \in DOMAIN plugins :
            (plugins[k].mtime # None /\ ~(plugins[k].mtime < disk[k])) =>
               /\ plugins'[k].callbacks = plugins[k].callbacks
               /\ plugins'[k].active = plugins[k].active
               /\ plugins'[k].lastEventId = plugins[k].lastEventId
               /\ plugins'[k].backlog = plugins[k].backlog]_vars

\* The reload cycle of an iteration that processed events has just run:
\* plugin a.py, deactivated with its first callback by a failure, is
\* still inactive, and the other plugin has moved on.
C32_Witness ==
    LET k == <<"c1", "a.py">>
    IN  /\ pc = "fetch" /\ wrote
        /\ ~plugins[k].active /\ ~plugins[k].callbacks[1].active
        /\ plugins[k].callbacks[2].active
        /\ plugins[k].mtime = disk[k]
        /\ plugins[<<"c2", "b.py">>].lastEventId > plugins[k].lastEventId + 1

\* C33: reload resets callbacks but not cursors.  When a load of the
\* collections evaluates a plugin's file (first load, or the file's mtime
\* has advanced), the callbacks list afterwards is the one the file
\* registers, of new callbacks that are all active, the plugin is active
\* whatever it was before, and at the end of an iteration its lastEventId
\* and backlog are what they were before the reload.
C33_ReloadResets ==
    [][Loading =>
         \A k \in DOMAIN plugins :
            (plugins[k].mtime = None \/ plugins[k].mtime < disk[k]) =>
               /\ Len(plugins'[k].callbacks) = Len(Registered(k))
               /\ \A i \in 1..Len(plugins'[k].callbacks) :
                     /\ plugins'[k].callbacks[i].active
                     /\ plugins'[k].callbacks[i] = NewCallback(Registered(k)[i])
               /\ plugins'[k].active
               /\ plugins'[k].mtime = disk[k]
               /\ pc = "save" => SameCursor(k)]_vars

\* The file of c1/a.py was modified in the iteration in which a failure
\* of the plugin's first callback on event 2 deactivated the plugin: the
\* iteration has persisted the cursor map and reloaded the plugin, which
\* is active with active callbacks and the cursor it had.
C33_Witness ==
    LET k == <<"c1", "a.py">>
    IN  /\ pc = "fetch" /\ probe.method = "load" /\ wrote
        /\ plugins[k].mtime = 1 /\ plugins[k].active
        /\ \A i \in 1..Len(plugins[k].callbacks) : plugins[k].callbacks[i].active
        /\ plugins[k].lastEventId = 1
        /\ \E e \in upstream : e.id = 2

\* C34: the cursor file is written by _saveEventIdData only if at least
\* one plugin has state.  Whenever the file is written some plugin has a
\* lastEventId or a backlog entry, and a step that calls _saveEventIdData
\* (a start without cursor file, the end of an iteration that held
\* events) while no plugin has either leaves the file as it is.
C34_WriteOnlyWithState ==
    [][LET stateless ==
               \A k \in DOMAIN plugins' :
                  /\ plugins'[k].lastEventId = None
                  /\ DOMAIN plugins'[k].backlog = {}
       IN  /\ wrote' => ~stateless
           /\ (/\ \/ (pc = "down" /\ pc' = "fetch" /\ eventIdFile = NoFile)
                   \/ (pc = "save" /\ pc' = "fetch" /\ events # <<>>)
                /\ stateless) =>
                 ~wrote' /\ eventIdFile' = eventIdFile]_vars

\* The daemon was started without cursor file on a deployment without
\* plugins: _saveEventIdData found no state and no file was written.
C34_Witness ==
    /\ pc = "fetch" /\ DOMAIN plugins = {} /\ DOMAIN disk = {}
    /\ eventIdFile = NoFile /\ ~wrote

\* The ids of the fetched events that are in the backlog of plugin k.
InBacklog(k) == {events[n].id : n \in 1..Len(events)} \cap DOMAIN plugins[k].backlog

\* C35: batch mode, mixed batch.  In one pass over a fetched batch a
\* plugin passes to its callbacks only events of the subset it chose: the
\* events whose id is in its backlog when the batch holds some, and
\* otherwise the events beyond its lastEventId.
C35_MixedBatch ==
    [][pc = "dispatch" =>
         \A n \in 1..Len(calls') :
            LET k == calls'[n].plugin
            IN  IF InBacklog(k) # {}
                THEN calls'[n].id \in InBacklog(k)
                ELSE \/ plugins[k].lastEventId = None
                     \/ calls'[n].id > plugins[k].lastEventId]_vars

\* C36: batch mode, no duplicates.  No callback is passed an event whose
\* id is at or below the lastEventId of its plugin and not in the plugin's
\* backlog, and no callback is passed an event id that it was passed in an
\* earlier invocation of the run.
C36_BatchNoDuplicates ==
    [][pc = "dispatch" =>
         \A n \in 1..Len(calls') :
            LET k == calls'[n].plugin
                id == calls'[n].id
            IN  /\ ~(/\ plugins[k].lastEventId # None
                     /\ id <= plugins[k].lastEventId
                     /\ id \notin DOMAIN plugins[k].backlog)
                /\ <<calls'[n].callback, id>> \notin delivered[k]]_vars

\* C37: inactive means not invoked.  Every invocation of a dispatch step
\* is of a callback that was active, in a plugin that was active, when the
\* step began, and follows no invocation of the step that stopped the
\* plugin: a callback that became inactive is not invoked until a reload
\* replaces the callback objects.
C37_InactiveNotInvoked ==
    [][\A n \in 1..Len(calls') :
          LET k == calls'[n].plugin
              i == calls'[n].callback
          IN  /\ plugins[k].active
              /\ i \in DOMAIN plugins[k].callbacks
              /\ plugins[k].callbacks[i].active
              /\ \A m \in 1..(n - 1) : ~StoppedBy(k, m)]_vars

\* C37's case: a plugin stopped by a failed callback is left out while an
\* event is dispatched to the callbacks of the other plugin.
C37_Witness ==
    \E k \in PluginKeys : \E j \in PluginKeys :
        /\ ~plugins[k].active
        /\ \E i \in DOMAIN plugins[k].callbacks : ~plugins[k].callbacks[i].active
        /\ plugins[j].active /\ calls # <<>>
        /\ \A n \in 1..Len(calls) : calls[n].plugin = j
        /\ plugins[k].lastEventId < plugins[j].lastEventId

\* C38: plugin with a null cursor.  An offered plugin whose lastEventId is
\* null dispatches the event whatever its id (its matching active
\* callbacks are invoked up to the first stopOnError callback that
\* raises) and, unless it was stopped, then has the event's id as
\* lastEventId and the backlog it had.
C38_NullCursor ==
    [][Dispatching =>
         \A k \in DOMAIN plugins :
            (OffersTo(plugins[k]) /\ plugins[k].lastEventId = None) =>
               /\ DispatchedTo(k)
               /\ plugins'[k].active =>
                     /\ plugins'[k].lastEventId = events[index].id
                     /\ plugins'[k].backlog = plugins[k].backlog]_vars

\* C38's case: the added plugin a.py, not yet in the cursor file, has just
\* been passed its first event, 3, which b.py had processed and which was
\* fetched again only because id 2 is in b.py's backlog; a.py's cursor is
\* 3 and its backlog is empty.
C38_Witness ==
    LET a == <<"c1", "a.py">>
        b == <<"c1", "b.py">>
    IN  /\ pc \in {"dispatch", "save"} /\ index = 2 /\ events[1].id = 3
        /\ a \notin DOMAIN FileData(eventIdFile)
        /\ Invoked(a, 3) /\ ~Invoked(b, 3)
        /\ plugins[a].active /\ plugins[a].lastEventId = 3
        /\ DOMAIN plugins[a].backlog = {}
        /\ plugins[b].lastEventId = 3 /\ 2 \in DOMAIN plugins[b].backlog

\* Event id is offered again for the sake of a plugin that is behind:
\* plugin j was dispatched it before, and some other active plugin, whose
\* cursor is below the id, was not since its callbacks were created.
Reoffered(j, id) ==
    /\ id \in DeliveredIds(j)
    /\ \E k \in DOMAIN plugins \ {j} :
          /\ plugins[k].active /\ plugins[k].lastEventId < id
          /\ id \notin DeliveredIds(k)

\* C39: recovery of a deactivated plugin.  A plugin stopped by a
\* stopOnError failure on event e keeps its lastEventId, which is below
\* e's id, for as long as it is inactive; when a reload makes it active
\* again the engine fetches from an id not above its lastEventId + 1; the
\* fetched batches pass over no visible event above that cursor, the
\* events above it are dispatched to the plugin's matching callbacks, in
\* ascending id order; and a plugin that was dispatched an id before
\* invokes no callback when the id is offered again for the sake of the
\* plugin that is behind.
C39_Recovery ==
    /\ [][Dispatching =>
            \A k \in DOMAIN plugins : \A n \in 1..Len(calls') :
               StoppedBy(k, n) =>
                  /\ plugins'[k].lastEventId = plugins[k].lastEventId
                  /\ plugins[k].lastEventId < events[index].id]_vars
    /\ [][\A k \in DOMAIN plugins :
            (~plugins[k].active /\ plugins[k].callbacks # <<>> /\ ~plugins'[k].active) =>
               plugins'[k].lastEventId = plugins[k].lastEventId]_vars
    /\ [][\A k \in DOMAIN plugins :
            (pc = "save" /\ pc' = "fetch" /\ ~plugins[k].active /\ plugins'[k].active) =>
               /\ NextEventId(plugins', now') # None
               /\ NextEventId(plugins', now') <= plugins'[k].lastEventId + 1]_vars
    /\ [][pc = "fetch" /\ pc' = "dispatch" =>
            \A k \in DOMAIN plugins : \A e \in upstream :
               (HasCursor(k) /\ plugins[k].lastEventId < e.id
                  /\ e.id <= events'[Len(events')].id)
                  => \E n \in 1..Len(events') : events'[n] = e]_vars
    /\ [][Dispatching =>
            \A k \in DOMAIN plugins :
               /\ (HasCursor(k) /\ events[index].id > plugins[k].lastEventId)
                     => DispatchedTo(k)
               /\ (CallsOf(k, calls') # <<>>
                      /\ events[index].id \notin DOMAIN plugins[k].backlog)
                     => \A id \in DeliveredIds(k) : id < events[index].id
               /\ Reoffered(k, events[index].id) => CallsOf(k, calls') = <<>>]_vars

====
